---------------------------- MODULE Spec2Model ----------------------------
(***************************************************************************)
(* Per-flow feature tracking of retina's subscription layer:               *)
(*   core/src/subscription/features.rs            TrackedFeatures          *)
(*   core/src/subscription/packet_features.rs     TrackedPacketFeatures    *)
(*   core/src/subscription/connection_features.rs FlowFeatures, aggregate  *)
(*   core/src/subscription/conn_features.rs       TrackedConnFeatures      *)
(* The connection tracker that drives a Trackable (pre_match, on_match,    *)
(* post_match, early_terminate, on_terminate) is not part of the source    *)
(* tree; it is modelled from section 4.4 of the specification.             *)
(***************************************************************************)
EXTENDS Integers, Sequences, FiniteSets, TLC

VARIABLES
    timing,     \* cargo feature "timing" of the build (features.rs)
    feed,       \* what the demultiplexer offers: "any" packets or a bulk script
    phase,      \* lifecycle state kept by the connection tracker
    delivered,  \* packets of the flow seen by the connection tracker so far
    hist,       \* the packets handed to pre_match/post_match, in order
    sessions,   \* the sessions handed to on_match, in order
    closes,     \* external closure signals received
    invoked,    \* records passed to Subscription::invoke, in order
    tf,         \* TrackedFeatures          (features.rs)
    tpf,        \* TrackedPacketFeatures    (packet_features.rs)
    tcf,        \* TrackedConnectionFeatures (connection_features.rs)
    tcn,        \* TrackedConnFeatures      (conn_features.rs)
    twin,       \* a second TrackedPacketFeatures fed the same flow, and its records
    samples,    \* a slice of raw feature values
    out,        \* what the last call on the samples returned
    runtime     \* the process: its workers, cnt of main.rs and the TSC_GHZ cell

vars == <<timing, feed, phase, delivered, hist, sessions, closes, invoked, tf, tpf,
          tcf, tcn, twin, samples, out, runtime>>

----------------------------------------------------------------------------
(* Bounds of the model.                                                    *)

\* packets of a flow whose content is chosen freely
MaxPkts == 4
\* packets of a flow that also carries session events
MaxShort == 2
\* session events delivered to one flow
MaxSessions == 2
\* external closure signals for one flow
MaxCloses == 2
\* packets of a bulk flow beyond the early-termination ceiling
BulkExtra == 50
\* packets short of the ceiling at which a bulk flow may be taken up
BulkLead == 2
\* hash seeds 0..MaxSeed a HashMap may be created with
MaxSeed == 1
\* length of a slice of raw feature values
MaxLen == 3
\* raw feature values 0..MaxValue
MaxValue == 4
\* later readings of the cycle counter in a replay, in nanoseconds
MaxJitter == 1
\* cores the runtime runs a worker on
NumCores == 2

\* packets a worker processes
MaxCorePkts == 2

\* readings 0..MaxReading of the cycle counter after the cast to u32
MaxReading == 7
\* counter readings of a long flow: 0..MaxSpan steps of 2^30 cycles
MaxSpan == 9

\* running byte totals as near as 3 to 3 + 4 * MaxSlack below i32::MAX
MaxSlack == 30

----------------------------------------------------------------------------
(* Program constants.                                                      *)

\* rte_get_tsc_hz(): cycles per second of the calibrated counter
TSC_HZ == 2000000000
\* packets.len() >= 2048 in early_terminate
PKT_CEILING == 2048

NanosPerSec == 1000000000
\* u32::MAX / 2, rounded down: the largest reading kept in one word here
HalfU32 == 2147483647

\* the u32 range, 2^32, counted in steps of 2^29 (of cycles, or of
\* nanoseconds)
U32Span == 8

\* features.rs: TSC_GHZ = rte_get_tsc_hz() as f64 / 1e9
TSC_GHZ == TSC_HZ \div NanosPerSec

----------------------------------------------------------------------------
(* f64 values: NaN, or a rational n/d in lowest terms with d > 0.          *)

Abs(x) == IF x < 0 THEN -x ELSE x

RECURSIVE Gcd(_, _)
Gcd(a, b) == IF b = 0 THEN a ELSE Gcd(b, a % b)

NAN == [k |-> "nan", n |-> 0, d |-> 1]
INF == [k |-> "inf", n |-> 1, d |-> 1]
NEG_INF == [k |-> "inf", n |-> -1, d |-> 1]

Ratio(n, d) ==
    LET g == Gcd(Abs(n), Abs(d))
        s == IF d < 0 THEN -1 ELSE 1
    IN  [k |-> "num", n |-> s * (n \div g), d |-> s * (d \div g)]

Num(x) == [k |-> "num", n |-> x, d |-> 1]

is_nan(x) == x.k = "nan"
IsNum(x) == x.k = "num"

FAdd(x, y) ==
    IF IsNum(x) /\ IsNum(y) THEN Ratio(x.n * y.d + y.n * x.d, x.d * y.d)
    ELSE IF is_nan(x) \/ is_nan(y) THEN NAN
    ELSE IF IsNum(x) THEN y
    ELSE IF IsNum(y) THEN x
    ELSE IF x.n = y.n THEN x ELSE NAN

FNeg(x) == IF is_nan(x) THEN NAN ELSE [x EXCEPT !.n = -x.n]

FSub(x, y) == FAdd(x, FNeg(y))

FDiv(x, y) ==
    IF is_nan(x) \/ is_nan(y) THEN NAN
    ELSE IF IsNum(x) /\ IsNum(y)
         THEN IF y.n # 0 THEN Ratio(x.n * y.d, x.d * y.n)
              ELSE IF x.n = 0 THEN NAN
              ELSE IF x.n > 0 THEN INF ELSE NEG_INF
    ELSE IF IsNum(y) THEN (IF y.n >= 0 THEN x ELSE FNeg(x))
    ELSE IF IsNum(x) THEN Num(0)
    ELSE NAN

\* x * y on numbers
FMul(x, y) == Ratio(x.n * y.n, x.d * y.d)

\* the integer square root of a natural number
RECURSIVE ISqrt(_, _)
ISqrt(n, r) == IF (r + 1) * (r + 1) > n THEN r ELSE ISqrt(n, r + 1)

\* f64::sqrt: a rational when the argument is the square of one, and else
\* the irrational kept as the root of its argument
FSqrt(x) ==
    IF ~IsNum(x) THEN x
    ELSE IF x.n < 0 THEN NAN
    ELSE LET rn == ISqrt(x.n, 0)
             rd == ISqrt(x.d, 0)
         IN  IF rn * rn = x.n /\ rd * rd = x.d THEN Ratio(rn, rd)
             ELSE [k |-> "sqrt", n |-> x.n, d |-> x.d]

\* a < b on numbers
FLess(a, b) == a.n * b.d < b.n * a.d

\* a minimum that is NaN when either operand is
FMin_nan(x, y) ==
    IF is_nan(x) \/ is_nan(y) THEN NAN
    ELSE IF FLess(y, x) THEN y ELSE x

\* f64::min and f64::max return the other operand when one is NaN
FMin(x, y) ==
    IF is_nan(x) THEN y ELSE IF is_nan(y) THEN x
    ELSE IF FLess(y, x) THEN y ELSE x

FMax(x, y) ==
    IF is_nan(x) THEN y ELSE IF is_nan(y) THEN x
    ELSE IF FLess(x, y) THEN y ELSE x

----------------------------------------------------------------------------
(* Packets as the parsers see them (L4Pdu, Mbuf::parse_to).                *)

\* pnet::datalink::MacAddr values
MacZero == "00:00:00:00:00:00"
ClientMac == "02:00:00:00:00:01"
ServerMac == "02:00:00:00:00:02"

Pkt(dir, kind) ==
    [ dir  |-> dir,
      kind |-> kind,
      timestamp |-> 0,
      ipv4 |-> kind # "V6",
      tcp  |-> kind \in {"SYN", "SYNACK", "ACK"},
      syn  |-> kind \in {"SYN", "SYNACK"},
      ack  |-> kind \in {"SYNACK", "ACK"},
      total_length |-> CASE kind = "SYN" -> 60 [] kind = "SYNACK" -> 60
                         [] kind = "ACK" -> 52 [] OTHER -> 100,
      ttl  |-> IF dir THEN 64 ELSE 128,
      protocol |-> IF kind = "UDP" THEN 17 ELSE 6,
      src_mac |-> IF dir THEN ClientMac ELSE ServerMac,
      dst_mac |-> IF dir THEN ServerMac ELSE ClientMac ]

\* the packets a flow is made of: a handshake, data, a datagram that is
\* IPv4 but not TCP, and a frame that is not IPv4
Packets ==
    { Pkt(TRUE, "SYN"), Pkt(TRUE, "ACK"), Pkt(TRUE, "UDP"), Pkt(TRUE, "V6"),
      Pkt(FALSE, "SYNACK"), Pkt(FALSE, "ACK"), Pkt(FALSE, "UDP") }

\* Arrival schedule of the flow.  In a build without "timing" the k-th packet
\* carries Mbuf::timestamp() = Schedule[k]; in the builds that read the cycle
\* counter it is processed Schedule[k] nanoseconds after the first one.
Schedule == <<0, 10, 15, 16>>

ArrivalTime(k) ==
    IF k <= Len(Schedule) THEN Schedule[k]
    ELSE Schedule[Len(Schedule)] + 4 * (k - Len(Schedule))

timestamp(k) == ArrivalTime(k)
rte_rdtsc(k) == TSC_GHZ * ArrivalTime(k)

\* Session data handed to on_match: a TLS session with a server name, or
\* another protocol's session.
Sessions == {[proto |-> "tls", sni |-> "a"], [proto |-> "tls", sni |-> "b"],
             [proto |-> "http", sni |-> ""]}

----------------------------------------------------------------------------
(* features.rs: TrackedFeatures, built with every metric feature but       *)
(* s_load and d_load; "timing" is the variable of that name.               *)

\* Trackable::new
TF_new ==
    [ compute_ns |-> 0, sni |-> "", cnt |-> 0,
      syn_ts |-> NAN, syn_ack_ts |-> NAN, ack_ts |-> NAN,
      s_last_ts |-> NAN, d_last_ts |-> NAN,
      s_pkt_cnt |-> Num(0), d_pkt_cnt |-> Num(0),
      s_bytes_sum |-> Num(0), d_bytes_sum |-> Num(0),
      s_ttl_sum |-> Num(0), d_ttl_sum |-> Num(0),
      proto |-> NAN,
      s_bytes_min |-> NAN, d_bytes_min |-> NAN,
      s_bytes_max |-> NAN, d_bytes_max |-> NAN,
      s_bytes_hist |-> <<>>, d_bytes_hist |-> <<>>,
      s_mac |-> MacZero, d_mac |-> MacZero ]

\* curr_ts of update: nanoseconds, from the cycle counter in a timing build
\* and from the packet's timestamp otherwise
curr_ts(tm, p, tsc) ==
    IF tm THEN Ratio(tsc, TSC_GHZ) ELSE Num(p.timestamp * 1000)

\* a recording rule that keeps the latest originator time instead
set_syn_ts_latest(t, now) == now

\* if self.syn_ts.is_nan() { self.syn_ts = curr_ts; }
set_syn_ts(t, now) == IF is_nan(t.syn_ts) THEN now ELSE t.syn_ts

\* a recording rule that takes the first originator ACK, handshake or not
set_ack_ts_any(t, p, now) ==
    IF is_nan(t.ack_ts) /\ p.tcp /\ p.ack THEN now ELSE t.ack_ts

\* if !self.syn_ack_ts.is_nan() && self.ack_ts.is_nan() { if tcp.ack() {..} }
set_ack_ts(t, p, now) ==
    IF ~is_nan(t.syn_ack_ts) /\ is_nan(t.ack_ts) /\ p.tcp /\ p.ack
    THEN now ELSE t.ack_ts

\* if self.syn_ack_ts.is_nan() { if tcp.synack() { self.syn_ack_ts = curr_ts } }
set_syn_ack_ts(t, p, now) ==
    IF is_nan(t.syn_ack_ts) /\ p.tcp /\ p.syn /\ p.ack
    THEN now ELSE t.syn_ack_ts

\* a history that keeps the latest size only
hist_keep_last(h, len) == <<len>>

\* self.s_bytes_hist.push(ipv4.total_length() as f64), and d_bytes_hist
hist_push(h, len) == Append(h, len)

\* the originator branch of update; a failed Tcp parse returns before proto
TF_update_orig(t, tm, p, now) ==
    LET len == Num(p.total_length)
        needTcp == ~is_nan(t.syn_ack_ts) /\ is_nan(t.ack_ts)
        t1 == [t EXCEPT
                 !.s_mac = IF ~tm /\ t.cnt = 1 THEN p.src_mac ELSE @,
                 !.d_mac = IF ~tm /\ t.cnt = 1 THEN p.dst_mac ELSE @,
                 !.syn_ts = set_syn_ts(t, now),
                 !.s_last_ts = now,
                 !.s_pkt_cnt = FAdd(@, Num(1)),
                 !.s_bytes_sum = FAdd(@, len),
                 !.s_bytes_min = FMin(@, len),
                 !.s_bytes_max = FMax(@, len),
                 !.s_bytes_hist = hist_push(@, len),
                 !.s_ttl_sum = FAdd(@, Num(p.ttl)),
                 !.ack_ts = set_ack_ts(t, p, now)]
    IN  IF needTcp /\ ~p.tcp THEN t1
        ELSE [t1 EXCEPT !.proto = Num(p.protocol)]

\* the responder branch of update
TF_update_resp(t, p, now) ==
    LET len == Num(p.total_length)
    IN  [t EXCEPT
           !.d_last_ts = now,
           !.d_pkt_cnt = FAdd(@, Num(1)),
           !.d_bytes_sum = FAdd(@, len),
           !.d_bytes_min = FMin(@, len),
           !.d_bytes_max = FMax(@, len),
           !.d_bytes_hist = hist_push(@, len),
           !.d_ttl_sum = FAdd(@, Num(p.ttl)),
           !.syn_ack_ts = set_syn_ack_ts(t, p, now)]

\* an update that takes the responder branch for segment.dir
TF_update_swapped(t, tm, p, tsc) ==
    LET t0 == [t EXCEPT !.cnt = @ + 1]
        now == curr_ts(tm, p, tsc)
    IN  IF ~p.ipv4 THEN t0
        ELSE IF p.dir THEN TF_update_resp(t0, p, now)
        ELSE TF_update_orig(t0, tm, p, now)

\* TrackedFeatures::update of packet p with the cycle counter at tsc;
\* pre_match and post_match discard its Result
TF_update(t, tm, p, tsc) ==
    LET t0 == [t EXCEPT !.cnt = @ + 1]
        now == curr_ts(tm, p, tsc)
    IN  IF ~p.ipv4 THEN t0
        ELSE IF p.dir THEN TF_update_orig(t0, tm, p, now)
        ELSE TF_update_resp(t0, p, now)

\* Trackable::pre_match: self.update(pdu).unwrap_or(())
pre_match(t, tm, p, tsc) == TF_update(t, tm, p, tsc)

\* a post_match that accumulates nothing
post_match_idle(t, tm, p, tsc) == t

\* Trackable::post_match: self.update(pdu).unwrap_or(())
post_match(t, tm, p, tsc) == TF_update(t, tm, p, tsc)

\* numbers.sort_by(partial_cmp): insertion into an ascending sequence
RECURSIVE SortInsert(_, _)
SortInsert(s, x) ==
    IF s = <<>> THEN <<x>>
    ELSE IF FLess(x, Head(s)) THEN <<x>> \o s
    ELSE <<Head(s)>> \o SortInsert(Tail(s), x)

RECURSIVE sort_by(_)
sort_by(s) == IF s = <<>> THEN <<>> ELSE SortInsert(sort_by(Tail(s)), Head(s))

\* a median that reads the middle of the slice as it arrived
median_unsorted(numbers) ==
    LET mid == Len(numbers) \div 2
    IN  IF numbers = <<>> THEN NAN
        ELSE IF Len(numbers) % 2 = 1 THEN numbers[mid + 1]
        ELSE FDiv(FAdd(numbers[mid], numbers[mid + 1]), Num(2))

\* fn median(numbers: &mut [f64]) -> f64, on the slice as sorted in place
median(numbers) ==
    LET sorted == sort_by(numbers)
        mid == Len(sorted) \div 2
    IN  IF numbers = <<>> THEN NAN
        ELSE IF Len(sorted) % 2 = 1 THEN sorted[mid + 1]
        ELSE FDiv(FAdd(sorted[mid], sorted[mid + 1]), Num(2))

\* let syn_ack = self.syn_ack_ts - self.syn_ts;
TF_syn_ack(t) == FSub(t.syn_ack_ts, t.syn_ts)

\* an ack_dat measured from the SYN instead of from the SYN+ACK
TF_ack_dat_from_syn(t) == FSub(t.ack_ts, t.syn_ts)

\* let ack_dat = self.ack_ts - self.syn_ack_ts;
TF_ack_dat(t) == FSub(t.ack_ts, t.syn_ack_ts)

\* let s_ttl_mean = self.s_ttl_sum / self.s_pkt_cnt; and the other means
TF_mean(sum, cnt) == FDiv(sum, cnt)

\* TrackedFeatures::extract_features: the Features record
TF_extract_features(t, tm) ==
    LET syn_ack == TF_syn_ack(t)
        ack_dat == TF_ack_dat(t)
    IN  [ dur |-> FSub(FMax(t.s_last_ts, t.d_last_ts), t.syn_ts),
          proto |-> t.proto,
          s_bytes_sum |-> t.s_bytes_sum,
          d_bytes_sum |-> t.d_bytes_sum,
          s_ttl_mean |-> TF_mean(t.s_ttl_sum, t.s_pkt_cnt),
          d_ttl_mean |-> TF_mean(t.d_ttl_sum, t.d_pkt_cnt),
          s_pkt_cnt |-> t.s_pkt_cnt,
          d_pkt_cnt |-> t.d_pkt_cnt,
          s_bytes_mean |-> TF_mean(t.s_bytes_sum, t.s_pkt_cnt),
          d_bytes_mean |-> TF_mean(t.d_bytes_sum, t.d_pkt_cnt),
          s_iat_mean |-> FDiv(FSub(t.s_last_ts, t.syn_ts), FSub(t.s_pkt_cnt, Num(1))),
          d_iat_mean |-> FDiv(FSub(t.d_last_ts, t.syn_ack_ts), FSub(t.d_pkt_cnt, Num(1))),
          tcp_rtt |-> FAdd(syn_ack, ack_dat),
          syn_ack |-> syn_ack,
          ack_dat |-> ack_dat,
          s_bytes_min |-> t.s_bytes_min,
          d_bytes_min |-> t.d_bytes_min,
          s_bytes_max |-> t.s_bytes_max,
          d_bytes_max |-> t.d_bytes_max,
          s_bytes_med |-> median(t.s_bytes_hist),
          d_bytes_med |-> median(t.d_bytes_hist),
          s_mac |-> IF tm THEN MacZero ELSE t.s_mac,
          d_mac |-> IF tm THEN MacZero ELSE t.d_mac,
          sni |-> t.sni ]

\* features_timed.rs TrackedFeatures::extract_features, the TTL means and
\* packet counts of its Features; update accumulates s_ttl_sum, d_ttl_sum,
\* s_pkt_cnt and d_pkt_cnt as features.rs does
TT_extract_features(t) ==
    [ s_ttl_mean |-> FDiv(t.s_ttl_sum, t.s_pkt_cnt),
      d_ttl_mean |-> FSub(t.d_ttl_sum, t.d_pkt_cnt),
      s_pkt_cnt |-> t.s_pkt_cnt,
      d_pkt_cnt |-> t.d_pkt_cnt ]

\* what extract_features leaves in self: median sorted both histories
TF_after_extract(t) ==
    [t EXCEPT !.s_bytes_hist = sort_by(@), !.d_bytes_hist = sort_by(@)]

\* Trackable::on_match
TF_on_match(t, session) ==
    IF session.proto = "tls" THEN [t EXCEPT !.sni = session.sni] ELSE t

----------------------------------------------------------------------------
(* packet_features.rs: TrackedPacketFeatures and PacketFeature.            *)

saturating_sub(a, b) == IF a >= b THEN a - b ELSE 0

\* ((curr_tsc.saturating_sub(start_tsc)) as f64 / *TSC_HZ * 1e9) as u32;
\* TSC_HZ is a whole number of GHz, so the quotient is taken in GHz
PF_delta_ns(curr_tsc, start_tsc) ==
    saturating_sub(curr_tsc, start_tsc) \div (TSC_HZ \div NanosPerSec)

\* bool -> u32
BoolU32(b) == IF b THEN 1 ELSE 0

\* PacketFeature::from: Ok(record) as <<record>>, Err as <<>>; of the 31
\* header fields the record keeps, the model carries the seven below
PacketFeature_from(p, tsc, start_tsc) ==
    IF p.ipv4 /\ p.tcp
    THEN << [ dir |-> BoolU32(p.dir),
              delta_ns |-> PF_delta_ns(tsc, start_tsc),
              ip_total_length |-> p.total_length,
              ip_ttl |-> p.ttl,
              ip_protocol |-> p.protocol,
              tcp_flags_syn |-> BoolU32(p.syn),
              tcp_flags_ack |-> BoolU32(p.ack) ] >>
    ELSE <<>>

\* Trackable::new: start_tsc is the counter as the flow's first packet arrives
PF_new == [start_tsc |-> rte_rdtsc(1), sni |-> "", packets |-> <<>>]

\* an update that puts the new record in front of the earlier ones
PF_update_front(t, p, tsc) ==
    [t EXCEPT !.packets = PacketFeature_from(p, tsc, t.start_tsc) \o @]

\* TrackedPacketFeatures::update
PF_update(t, p, tsc) ==
    [t EXCEPT !.packets = @ \o PacketFeature_from(p, tsc, t.start_tsc)]

\* Trackable::on_match
PF_on_match(t, session) ==
    IF session.proto = "tls" THEN [t EXCEPT !.sni = session.sni] ELSE t

\* the PacketFeatures record built by on_terminate
PF_record(t) == [sni |-> t.sni, packets |-> t.packets]

\* a ceiling test that lets one more packet in
PF_early_terminate_late(t) == Len(t.packets) > PKT_CEILING

\* Trackable::early_terminate
PF_early_terminate(t) == Len(t.packets) >= PKT_CEILING

\* features.rs Trackable::early_terminate
TF_early_terminate(t) == FALSE

----------------------------------------------------------------------------
(* connection_features.rs: aggregate, FlowFeatures and                     *)
(* TrackedConnectionFeatures.                                              *)

PACKET_FT_CLASSES ==
    << "packet_iat", "ip_ihl", "ip_dscp", "ip_ecn", "ip_total_length", "ip_id",
       "ip_flags_rf", "ip_flags_df", "ip_flags_mf", "ip_fragment_offset",
       "ip_ttl", "ip_protocol", "ip_header_checksum", "tcp_src_port",
       "tcp_dst_port", "tcp_seq_num", "tcp_ack_num", "tcp_data_offset",
       "tcp_reserved", "tcp_flags_cwr", "tcp_flags_ece", "tcp_flags_urg",
       "tcp_flags_ack", "tcp_flags_psh", "tcp_flags_rst", "tcp_flags_syn",
       "tcp_flags_fin", "tcp_window_size", "tcp_checksum", "tcp_urgent_ptr" >>

AGGREGATORS ==
    << "min", "q1", "med", "q3", "max", "mean", "std", "skew", "kurt", "sum",
       "dist", "first" >>

Range(f) == {f[i] : i \in DOMAIN f}

\* raw_features.iter().map(|&x| x as f64).collect()
AsF64(raw) == [i \in 1..Len(raw) |-> Num(raw[i])]

RECURSIVE SumU32(_)
SumU32(raw) == IF raw = <<>> THEN 0 ELSE Head(raw) + SumU32(Tail(raw))

RECURSIVE FSum(_)
FSum(xs) == IF xs = <<>> THEN Num(0) ELSE FAdd(Head(xs), FSum(Tail(xs)))

\* statrs Data::quantile(tau) for tau = num/den on the sorted data:
\* h = (n + 1/3) * tau + 1/3, between the floor(h)-th and the next value
quantile(sorted, num, den) ==
    LET n == Len(sorted)
        hn == (3 * n + 1) * num + den
        hd == 3 * den
        hf == hn \div hd
    IN  IF hf <= 0 \/ num = 0 THEN sorted[1]
        ELSE IF hf >= n \/ num = den THEN sorted[n]
        ELSE FAdd(sorted[hf],
                  FMul(Ratio(hn - hf * hd, hd), FSub(sorted[hf + 1], sorted[hf])))

\* statrs Statistics::mean
mean(xs) == FDiv(FSum(xs), Num(Len(xs)))

\* statrs Statistics::variance: the sample variance, NaN below two samples
variance(xs) ==
    LET m == mean(xs)
        sq == [i \in 1..Len(xs) |-> FMul(FSub(xs[i], m), FSub(xs[i], m))]
    IN  IF Len(xs) < 2 THEN NAN ELSE FDiv(FSum(sq), Num(Len(xs) - 1))

\* the slice sorted before it is indexed
index_sorted(data, i) == sort_by(data)[i + 1]

\* Index<usize> for Data: the i-th value of the container as it stands
index(data, i) == data[i + 1]

\* fn aggregate(agg: &str, raw_features: &[u32]) -> f64; Data does not
\* override Distribution::skewness, which is None
aggregate(agg, raw_features) ==
    LET data == AsF64(raw_features)
        sorted == sort_by(data)
    IN  IF raw_features = <<>> THEN Num(0)
        ELSE CASE agg = "min" -> sorted[1]
               [] agg = "q1" -> quantile(sorted, 25, 100)
               [] agg = "med" -> quantile(sorted, 1, 2)
               [] agg = "q3" -> quantile(sorted, 75, 100)
               [] agg = "max" -> sorted[Len(sorted)]
               [] agg = "mean" -> mean(data)
               [] agg = "std" -> FSqrt(variance(data))
               [] agg = "skew" -> Num(0)
               [] agg = "kurt" -> Ratio(-12, 10)
               [] agg = "sum" -> Num(SumU32(raw_features))
               [] agg = "dist" -> Num(Cardinality(Range(raw_features)))
               [] agg = "first" -> index(data, 0)
               [] OTHER -> Num(0)

\* Option<usize>
None == <<>>
Some(n) == <<n>>

\* the value a call leaves when the thread panics in it
PANIC == [k |-> "panic", n |-> 0, d |-> 1]

\* FlowFeatures::new; seed stands for the RandomState the HashMap is
\* collected with, and every reading of the model fits a u32
FlowFeatures_new(tsc, seed) ==
    [ start_tsc |-> tsc, packet_cnt |-> 0, byte_cnt |-> 0,
      pkt_data |-> [c \in Range(PACKET_FT_CLASSES) |-> <<>>],
      seed |-> seed ]

\* the inner loop of get_features: for agg in AGGREGATORS.iter()
RECURSIVE class_features(_, _)
class_features(aggs, raw) ==
    IF aggs = <<>> THEN <<>>
    ELSE <<aggregate(Head(aggs), raw)>> \o class_features(Tail(aggs), raw)

\* the outer loop of get_features: for ft_class in PACKET_FT_CLASSES.iter();
\* &raw_features[0..n_pkts] panics when n_pkts is beyond the vector
RECURSIVE classes_features(_, _, _)
classes_features(classes, f, n_pkts) ==
    IF classes = <<>> THEN <<>>
    ELSE LET raw == f.pkt_data[Head(classes)]
             n == IF n_pkts = None THEN Len(raw) ELSE n_pkts[1]
             rest == classes_features(Tail(classes), f, n_pkts)
         IN  IF n > Len(raw) \/ rest = <<PANIC>> THEN <<PANIC>>
             ELSE class_features(AGGREGATORS, SubSeq(raw, 1, n)) \o rest

\* FlowFeatures::get_features
get_features(f, n_pkts) == classes_features(PACKET_FT_CLASSES, f, n_pkts)

\* self.pkt_data.get_mut(key).unwrap().push(value); the unwrap of a key
\* the map does not hold panics
push(f, key, value) ==
    IF f = PANIC THEN PANIC
    ELSE IF key \in DOMAIN f.pkt_data
         THEN [f EXCEPT !.pkt_data[key] = Append(@, value)]
         ELSE PANIC

\* ((curr_tsc - self.start_tsc) as f64 / *TSC_HZ * 1e9) as u32, as Some(d);
\* None when the subtraction overflows, which panics in a build with
\* overflow checks
CF_delta_ns(curr_tsc, start_tsc) ==
    IF curr_tsc >= start_tsc
    THEN Some((curr_tsc - start_tsc) \div (TSC_HZ \div NanosPerSec))
    ELSE None

\* FlowFeatures::insert_segment with the cycle counter at tsc; of the 29
\* header fields pushed, the model carries five
insert_segment(f, p, tsc) ==
    LET delta_ns == CF_delta_ns(tsc, f.start_tsc)
        f1 == push(f, "delta_ns", delta_ns[1])
        f2 == IF f1 = PANIC \/ ~p.ipv4 THEN f1
              ELSE push(push(push(
                       [f1 EXCEPT !.packet_cnt = @ + 1,
                                  !.byte_cnt = @ + p.total_length],
                       "ip_total_length", p.total_length),
                       "ip_ttl", p.ttl),
                       "ip_protocol", p.protocol)
    IN  IF delta_ns = None THEN PANIC
        ELSE IF f2 = PANIC \/ ~p.ipv4 \/ ~p.tcp THEN f2
        ELSE push(push(f2, "tcp_flags_ack", BoolU32(p.ack)),
                  "tcp_flags_syn", BoolU32(p.syn))

\* the same expression in a build without overflow checks: for
\* curr_tsc < start_tsc the subtraction wraps to 2^32 - (start_tsc - curr_tsc),
\* and 2^32 = 2 * HalfU32 + 2
CF_delta_ns_wrapping(curr_tsc, start_tsc) ==
    LET g == TSC_HZ \div NanosPerSec
    IN  IF curr_tsc >= start_tsc
        THEN (curr_tsc - start_tsc) \div g
        ELSE 2 * (HalfU32 \div g)
             + ((2 * (HalfU32 % g) + 2 - (start_tsc - curr_tsc)) \div g)

\* Trackable::new of TrackedConnectionFeatures
TCF_new(seed_ctos, seed_stoc) ==
    [ sni |-> "",
      ctos |-> FlowFeatures_new(rte_rdtsc(1), seed_ctos),
      stoc |-> FlowFeatures_new(rte_rdtsc(1), seed_stoc) ]

\* TrackedConnectionFeatures::update; a panic in it ends the thread
TCF_update(t, p, tsc) ==
    LET f == insert_segment(IF p.dir THEN t.ctos ELSE t.stoc, p, tsc)
    IN  IF f = PANIC THEN PANIC
        ELSE IF p.dir THEN [t EXCEPT !.ctos = f]
        ELSE [t EXCEPT !.stoc = f]

\* Trackable::on_match
TCF_on_match(t, session) ==
    IF session.proto = "tls" THEN [t EXCEPT !.sni = session.sni] ELSE t

\* the ConnectionFeatures record built by on_terminate
TCF_record(t) == [sni |-> t.sni, orig |-> t.ctos, resp |-> t.stoc]

\* s rotated left by n places
Rotated(s, n) == [i \in 1..Len(s) |-> s[((i - 1 + n) % Len(s)) + 1]]

\* the keys of pkt_data in the order the derived Serialize walks the HashMap,
\* which the map's RandomState decides
serialized_keys(f) == Rotated(PACKET_FT_CLASSES, f.seed)

----------------------------------------------------------------------------
(* conn_features.rs: FlowFeatures with a delta_ns vector of its own, and   *)
(* TrackedConnFeatures.                                                    *)

\* FlowFeatures::new; pkt_data: hashmap!{} holds no key
CN_FlowFeatures_new(tsc) ==
    [ start_tsc |-> tsc, packet_cnt |-> 0, byte_cnt |-> 0,
      delta_ns |-> <<>>, pkt_data |-> <<>> ]

\* ((curr_tsc.saturating_sub(self.start_tsc)) as f64 / *TSC_HZ * 1e9) as u32
\* on readings cast to u32
CN_delta_ns(curr_tsc, start_tsc) ==
    saturating_sub(curr_tsc, start_tsc) \div (TSC_HZ \div NanosPerSec)

\* the Ipv4 pushes of insert_segment, of which the model carries four;
\* ip_ihl is the first, a header without options has ihl 5
CN_ipv4_pushes(f, p) ==
    push(push(push(push(f, "ip_ihl", 5),
                   "ip_total_length", p.total_length),
              "ip_ttl", p.ttl),
         "ip_protocol", p.protocol)

\* the Tcp pushes of insert_segment, of which the model carries two
CN_tcp_pushes(f, p) ==
    push(push(f, "tcp_flags_ack", BoolU32(p.ack)),
         "tcp_flags_syn", BoolU32(p.syn))

\* FlowFeatures::insert_segment with the cycle counter at tsc
CN_insert_segment(f, p, tsc) ==
    LET f1 == [f EXCEPT !.delta_ns = Append(@, CN_delta_ns(tsc, f.start_tsc))]
        f2 == CN_ipv4_pushes([f1 EXCEPT !.packet_cnt = @ + 1,
                                        !.byte_cnt = @ + p.total_length], p)
    IN  IF ~p.ipv4 THEN f1
        ELSE IF f2 = PANIC \/ ~p.tcp THEN f2
        ELSE CN_tcp_pushes(f2, p)

\* Trackable::new of TrackedConnFeatures
TCN_new ==
    [ sni |-> "",
      ctos |-> CN_FlowFeatures_new(rte_rdtsc(1)),
      stoc |-> CN_FlowFeatures_new(rte_rdtsc(1)) ]

\* TrackedConnFeatures::update; a panic in it ends the thread
TCN_update(t, p, tsc) ==
    LET f == CN_insert_segment(IF p.dir THEN t.ctos ELSE t.stoc, p, tsc)
    IN  IF f = PANIC THEN PANIC
        ELSE IF p.dir THEN [t EXCEPT !.ctos = f]
        ELSE [t EXCEPT !.stoc = f]

\* an on_match that takes the server name of any session
TCN_on_match_any(t, session) == [t EXCEPT !.sni = session.sni]

\* Trackable::on_match
TCN_on_match(t, session) ==
    IF session.proto = "tls" THEN [t EXCEPT !.sni = session.sni] ELSE t

\* the ConnFeatures record built by on_terminate
TCN_record(t) == [sni |-> t.sni, orig |-> t.ctos, resp |-> t.stoc]

----------------------------------------------------------------------------
(* features_s_bytes_sum.rs: the TrackedFeatures that keeps s_bytes_sum.    *)

\* i32::MAX
I32_MAX == HalfU32

\* Trackable::new
SB_new == [s_bytes_sum |-> 0]

\* self.s_bytes_sum += v on an i32: the sum while it fits; beyond i32::MAX
\* a panic in a build with overflow checks and the wrapped sum, which is
\* a + v - 2^32, in a build without
i32_add(a, v, checks) ==
    IF a <= I32_MAX - v THEN Some(a + v)
    ELSE IF checks THEN None
    ELSE Some((a - I32_MAX - 1) + (v - I32_MAX - 1))

\* TrackedFeatures::update of features_s_bytes_sum.rs
SB_update(t, p, checks) ==
    IF ~p.ipv4 \/ ~p.dir THEN t
    ELSE LET sum == i32_add(t.s_bytes_sum, p.total_length, checks)
         IN  IF sum = None THEN PANIC ELSE [t EXCEPT !.s_bytes_sum = sum[1]]

----------------------------------------------------------------------------
(* The process: main() of the examples, the workers of the runtime, one    *)
(* per core, and the lazy_static cell of features.rs.                      *)

Cores == 1..NumCores

\* a worker before its first packet
Worker_new == [pc |-> "idle", pkts |-> 0, flows |-> 0, seen |-> {}]

\* lazy_static! { static ref TSC_GHZ: f64 = ... }: no value before the first
\* dereference; by and writes record which core ran the initializer and
\* how often the cell was written
Lazy_new == [state |-> "uninit", value |-> NAN, by |-> 0, writes |-> 0]

\* let cnt = AtomicUsize::new(0); modified_by records the cores whose
\* callbacks have modified it
AtomicUsize_new == [value |-> 0, modified_by |-> {}]

\* the process as main() has set it up when Runtime::run starts; file and
\* lock are the output file of log_features, as the writes it has received,
\* and the core that holds its Mutex (0 for none)
Runtime_new ==
    [ cnt |-> AtomicUsize_new,
      tsc_ghz |-> Lazy_new,
      workers |-> [c \in Cores |-> Worker_new],
      stopped |-> FALSE,
      num_conns |-> None,
      file |-> <<>>,
      lock |-> 0 ]

\* a lock() that returns at once, whoever holds the Mutex
lock_any(lock) == TRUE

\* file.lock() returns when no core holds the Mutex
lock_free(lock) == lock = 0

\* an increment that is lost when another core has modified the counter
fetch_add_lost(cnt, c) ==
    [value |-> IF cnt.modified_by \subseteq {c} THEN cnt.value + 1
               ELSE cnt.value,
     modified_by |-> cnt.modified_by \cup {c}]

\* cnt.fetch_add(1, Ordering::Relaxed) in the callback run on core c
fetch_add(cnt, c) ==
    [value |-> cnt.value + 1, modified_by |-> cnt.modified_by \cup {c}]

----------------------------------------------------------------------------
(* The connection tracker (specification, section 4.4).  A packet of an    *)
(* open flow goes to pre_match or post_match and early_terminate is        *)
(* evaluated after it; a session goes to on_match; the closure signal      *)
(* calls on_terminate from any state; packets of a terminated flow are     *)
(* not delivered.                                                          *)

BulkFeeds == {"bulk_up", "bulk_mixed"}

\* packets the flow carries
FlowLen ==
    CASE feed = "any" -> MaxPkts
      [] feed = "short" -> MaxShort
      [] OTHER -> PKT_CEILING + BulkExtra

\* the k-th packet on the wire
Offered(k) ==
    CASE feed \in {"any", "short"} -> Packets
      [] feed = "bulk_up" -> {Pkt(TRUE, "ACK")}
      [] OTHER -> IF k = 1 THEN {Pkt(FALSE, "UDP")}
                  ELSE {Pkt(k % 2 = 0, "ACK")}

Ghost(p) == [dir |-> p.dir, kind |-> p.kind]

\* the k-th packet of the flow as the tracker hands it on
Stamp(p, k) == [p EXCEPT !.timestamp = timestamp(k)]

DriverInit ==
    /\ phase = "Open"
    /\ delivered = 0
    /\ hist = <<>>
    /\ sessions = <<>>
    /\ closes = 0
    /\ invoked = <<>>
    /\ tf = TF_new
    /\ tpf = PF_new
    /\ twin = [t |-> PF_new, invoked |-> <<>>]
    /\ tcn = TCN_new
    /\ runtime = Runtime_new

\* the slice of a run that calls nothing on one
NoSlice == samples = <<>> /\ out = <<>>

\* the maps of a run that serializes none
OneSeed == tcf = TCF_new(0, 0)

\* a tracker that hands the packets of a terminated flow on to update()
deliver_terminated ==
    \E p \in Packets :
        /\ phase = "Terminated"
        /\ delivered < FlowLen
        /\ delivered' = delivered + 1
        /\ hist' = Append(hist, Ghost(p))
        /\ tf' = TF_update(tf, timing, Stamp(p, delivered + 1),
                           rte_rdtsc(delivered + 1))
        /\ UNCHANGED <<timing, feed, phase, sessions, closes, invoked, tpf, tcf,
                       tcn, twin, samples, out, runtime>>

\* a packet of a terminated flow is dropped by the tracker
drop_packet ==
    /\ phase = "Terminated"
    /\ delivered < FlowLen
    /\ delivered' = delivered + 1
    /\ UNCHANGED <<timing, feed, phase, hist, sessions, closes, invoked, tf, tpf, tcf, twin, samples, out, tcn,
                    runtime>>

\* the closure signal reaches a bulk flow after its last packet
MayClose == closes < MaxCloses /\ (feed \notin BulkFeeds \/ delivered = FlowLen)

(* ---- features.rs ---- *)

\* the tracker hands packet p on; t1 is the instance after the callback
TF_packet(p, t1) ==
    LET k == delivered + 1
    IN  /\ delivered < FlowLen
        /\ p \in Offered(delivered + 1)
        /\ delivered' = delivered + 1
        /\ hist' = Append(hist, Ghost(p))
        /\ IF TF_early_terminate(t1)
           THEN /\ invoked' = Append(invoked, TF_extract_features(t1, timing))
                /\ tf' = TF_after_extract(t1)
                /\ phase' = "Terminated"
           ELSE /\ tf' = t1
                /\ UNCHANGED <<invoked, phase>>
        /\ UNCHANGED <<timing, feed, sessions, closes, tpf, tcf, twin, samples, out, tcn,
                    runtime>>

\* the k-th packet of the flow being p, the arguments update() runs on
Arrival(p) == <<Stamp(p, delivered + 1), rte_rdtsc(delivered + 1)>>

TF_pre_match ==
    \E p \in Packets :
        /\ phase = "Open"
        /\ TF_packet(p, pre_match(tf, timing, Arrival(p)[1], Arrival(p)[2]))

TF_post_match ==
    \E p \in Packets :
        /\ phase \in {"Open", "Matched"}
        /\ TF_packet(p, post_match(tf, timing, Arrival(p)[1], Arrival(p)[2]))

TF_on_match_step ==
    \E s \in Sessions :
        /\ phase \in {"Open", "Matched"}
        /\ Len(sessions) < MaxSessions
        /\ tf' = TF_on_match(tf, s)
        /\ sessions' = Append(sessions, s)
        /\ phase' = "Matched"
        /\ UNCHANGED <<timing, feed, delivered, hist, closes, invoked, tpf, tcf, twin, samples, out, tcn,
                    runtime>>

TF_on_terminate ==
    /\ MayClose
    /\ closes' = closes + 1
    /\ invoked' = Append(invoked, TF_extract_features(tf, timing))
    /\ tf' = TF_after_extract(tf)
    /\ phase' = "Terminated"
    /\ UNCHANGED <<timing, feed, delivered, hist, sessions, tpf, tcf, twin, samples, out, tcn,
                    runtime>>

(* ---- packet_features.rs ---- *)

PF_packet(p) ==
    LET k == delivered + 1
        t1 == PF_update(tpf, Stamp(p, k), rte_rdtsc(k))
    IN  /\ delivered < FlowLen
        /\ p \in Offered(k)
        /\ delivered' = delivered + 1
        /\ hist' = Append(hist, Ghost(p))
        /\ tpf' = t1
        /\ IF PF_early_terminate(t1)
           THEN /\ invoked' = Append(invoked, PF_record(t1))
                /\ phase' = "Terminated"
           ELSE UNCHANGED <<invoked, phase>>
        /\ UNCHANGED <<timing, feed, sessions, closes, tf, tcf, twin, samples, out, tcn,
                    runtime>>

PF_pre_match == \E p \in Packets : phase = "Open" /\ PF_packet(p)

PF_post_match == \E p \in Packets : phase \in {"Open", "Matched"} /\ PF_packet(p)

PF_on_match_step ==
    \E s \in Sessions :
        /\ phase \in {"Open", "Matched"}
        /\ Len(sessions) < MaxSessions
        /\ tpf' = PF_on_match(tpf, s)
        /\ sessions' = Append(sessions, s)
        /\ phase' = "Matched"
        /\ UNCHANGED <<timing, feed, delivered, hist, closes, invoked, tf, tcf, twin, samples, out, tcn,
                    runtime>>

PF_on_terminate ==
    /\ MayClose
    /\ closes' = closes + 1
    /\ invoked' = Append(invoked, PF_record(tpf))
    /\ phase' = "Terminated"
    /\ UNCHANGED <<timing, feed, delivered, hist, sessions, tf, tpf, tcf, twin, samples, out, tcn,
                    runtime>>

\* the k-th packet of a bulk flow
ScriptPkt(k) == Stamp(CHOOSE p \in Offered(k) : TRUE, k)

\* TrackedPacketFeatures after update() of the first n packets of a bulk
\* flow: the records of the Ok results, in order
PF_after(n) ==
    LET t0 == PF_new
        results == [k \in 1..n |-> PacketFeature_from(ScriptPkt(k), rte_rdtsc(k), t0.start_tsc)]
    IN  CHOOSE t \in { [t0 EXCEPT !.packets = [i \in 1..Len(ok) |-> ok[i][1]]] :
                          ok \in {SelectSeq(results, LAMBDA r : r # <<>>)} } : TRUE

\* the tracker's view of a bulk flow BulkLead packets short of the ceiling
BulkTakenUp ==
    LET n == PKT_CEILING - BulkLead
    IN  /\ phase = "Open"
        /\ delivered = n
        /\ hist = [k \in 1..n |-> Ghost(ScriptPkt(k))]
        /\ sessions = <<>>
        /\ closes = 0
        /\ invoked = <<>>
        /\ tf = TF_new
        /\ tpf = PF_after(n)
        /\ twin = [t |-> PF_new, invoked |-> <<>>]
        /\ tcn = TCN_new
        /\ runtime = Runtime_new

\* a bulk flow starts at its construction; the state it is in BulkLead
\* packets short of the ceiling is an initial state as well, so that a
\* behaviour that ends after the ceiling need not begin 2048 packets before
InitBulk ==
    /\ timing = FALSE
    /\ feed \in BulkFeeds
    /\ (DriverInit \/ BulkTakenUp)
    /\ OneSeed
    /\ NoSlice

NextBulk == PF_pre_match \/ PF_post_match \/ PF_on_terminate \/ drop_packet

\* packet_features.rs, a flow longer than the early-termination ceiling
SpecBulk == InitBulk /\ [][NextBulk]_vars

InitPkt == timing = FALSE /\ feed = "short" /\ DriverInit /\ OneSeed /\ NoSlice

NextPkt ==
    \/ PF_pre_match \/ PF_post_match \/ PF_on_match_step \/ PF_on_terminate
    \/ drop_packet

\* packet_features.rs, a short flow with its session events
SpecPkt == InitPkt /\ [][NextPkt]_vars

\* update() of packets a..b of a bulk flow, in order, on t
RECURSIVE TF_run(_, _, _)
TF_run(t, a, b) ==
    IF a > b THEN t
    ELSE IF a = b THEN TF_update(t, FALSE, ScriptPkt(a), rte_rdtsc(a))
    ELSE CHOOSE r \in { TF_run(u, (a + b) \div 2 + 1, b) :
                           u \in {TF_run(t, a, (a + b) \div 2)} } : TRUE

\* TrackedFeatures after update() of the first n packets of a bulk flow
TF_after(n) == TF_run(TF_new, 1, n)

\* the tracker's view of a bulk flow BulkLead packets short of the ceiling
TFBulkTakenUp ==
    LET n == PKT_CEILING - BulkLead
    IN  /\ phase = "Open"
        /\ delivered = n
        /\ hist = [k \in 1..n |-> Ghost(ScriptPkt(k))]
        /\ sessions = <<>>
        /\ closes = 0
        /\ invoked = <<>>
        /\ tf = TF_after(n)
        /\ tpf = PF_new
        /\ twin = [t |-> PF_new, invoked |-> <<>>]
        /\ tcn = TCN_new
        /\ runtime = Runtime_new

InitBulkTF ==
    /\ timing = FALSE
    /\ feed \in BulkFeeds
    /\ (DriverInit \/ TFBulkTakenUp)
    /\ OneSeed
    /\ NoSlice

NextBulkTF == TF_pre_match \/ TF_post_match

\* features.rs, a flow longer than the ceiling of packet_features.rs, for
\* as long as it stays open
SpecBulkTF == InitBulkTF /\ [][NextBulkTF]_vars

(* ---- connection_features.rs ---- *)

CF_packet(p) ==
    LET k == delivered + 1
    IN  /\ tcf # PANIC
        /\ delivered < FlowLen
        /\ p \in Offered(k)
        /\ delivered' = delivered + 1
        /\ hist' = Append(hist, Ghost(p))
        /\ tcf' = TCF_update(tcf, Stamp(p, k), rte_rdtsc(k))
        /\ UNCHANGED <<timing, feed, phase, sessions, closes, invoked, tf, tpf,
                       twin, samples, out, tcn, runtime>>

CF_pre_match == \E p \in Packets : phase = "Open" /\ CF_packet(p)

CF_post_match == \E p \in Packets : phase \in {"Open", "Matched"} /\ CF_packet(p)

CF_on_match_step ==
    \E s \in Sessions :
        /\ tcf # PANIC
        /\ phase \in {"Open", "Matched"}
        /\ Len(sessions) < MaxSessions
        /\ tcf' = TCF_on_match(tcf, s)
        /\ sessions' = Append(sessions, s)
        /\ phase' = "Matched"
        /\ UNCHANGED <<timing, feed, delivered, hist, closes, invoked, tf, tpf,
                       twin, samples, out, tcn, runtime>>

CF_on_terminate ==
    /\ tcf # PANIC
    /\ MayClose
    /\ closes' = closes + 1
    /\ invoked' = Append(invoked, TCF_record(tcf))
    /\ phase' = "Terminated"
    /\ UNCHANGED <<timing, feed, delivered, hist, sessions, tf, tpf, tcf,
                   twin, samples, out, tcn, runtime>>

Seeds == 0..MaxSeed

InitConn ==
    /\ timing = FALSE
    /\ feed = "short"
    /\ DriverInit
    /\ \E a \in Seeds, b \in Seeds : tcf = TCF_new(a, b)
    /\ NoSlice

(* ---- conn_features.rs ---- *)

CN_packet(p) ==
    LET k == delivered + 1
    IN  /\ tcn # PANIC
        /\ delivered < FlowLen
        /\ p \in Offered(k)
        /\ delivered' = delivered + 1
        /\ hist' = Append(hist, Ghost(p))
        /\ tcn' = TCN_update(tcn, Stamp(p, k), rte_rdtsc(k))
        /\ UNCHANGED <<timing, feed, phase, sessions, closes, invoked, tf, tpf,
                       tcf, twin, samples, out, runtime>>

CN_pre_match == \E p \in Packets : phase = "Open" /\ CN_packet(p)

CN_post_match == \E p \in Packets : phase \in {"Open", "Matched"} /\ CN_packet(p)

CN_on_match_step ==
    \E s \in Sessions :
        /\ tcn # PANIC
        /\ phase \in {"Open", "Matched"}
        /\ Len(sessions) < MaxSessions
        /\ tcn' = TCN_on_match(tcn, s)
        /\ sessions' = Append(sessions, s)
        /\ phase' = "Matched"
        /\ UNCHANGED <<timing, feed, delivered, hist, closes, invoked, tf, tpf,
                       tcf, twin, samples, out, runtime>>

CN_on_terminate ==
    /\ tcn # PANIC
    /\ MayClose
    /\ closes' = closes + 1
    /\ invoked' = Append(invoked, TCN_record(tcn))
    /\ phase' = "Terminated"
    /\ UNCHANGED <<timing, feed, delivered, hist, sessions, tf, tpf, tcf,
                   tcn, twin, samples, out, runtime>>

InitConnF ==
    /\ timing = FALSE
    /\ feed = "short"
    /\ DriverInit
    /\ OneSeed
    /\ NoSlice

NextConnF ==
    \/ CN_pre_match \/ CN_post_match \/ CN_on_match_step \/ CN_on_terminate
    \/ drop_packet

\* conn_features.rs, a short flow with its session events
SpecConnF == InitConnF /\ [][NextConnF]_vars

(* ---- calls on a slice of raw feature values ---- *)

\* the example of the specification
ExampleSamples == <<1, 2, 3, 4, 5>>

SampleSeqs ==
    UNION {[1..n -> 0..MaxValue] : n \in 0..MaxLen} \cup {ExampleSamples}

\* a FlowFeatures whose every header class holds the slice
FlowFeatures_of(raw) ==
    [FlowFeatures_new(rte_rdtsc(1), 0) EXCEPT
        !.packet_cnt = Len(raw),
        !.pkt_data = [c \in Range(PACKET_FT_CLASSES) |->
                         IF c = "packet_iat" THEN <<>> ELSE raw]]

aggregate_call ==
    \E agg \in Range(AGGREGATORS) \cup {"other"} :
        /\ out = <<>>
        /\ out' = <<[call |-> "aggregate", agg |-> agg,
                     ret |-> aggregate(agg, samples)]>>
        /\ UNCHANGED <<timing, feed, phase, delivered, hist, sessions, closes,
                       invoked, tf, tpf, tcf, twin, samples, tcn, runtime>>

get_features_call ==
    \E n_pkts \in {None} \cup {Some(n) : n \in 0..MaxLen} :
        /\ out = <<>>
        /\ tcf # PANIC
        /\ out' = <<[call |-> "get_features", n_pkts |-> n_pkts,
                     ret |-> get_features(FlowFeatures_of(samples), n_pkts)]>>
        /\ UNCHANGED <<timing, feed, phase, delivered, hist, sessions, closes,
                       invoked, tf, tpf, tcf, twin, samples, tcn, runtime>>

\* features.rs median on the slice, taken as f64 values
median_call ==
    /\ out = <<>>
    /\ out' = <<[call |-> "median", agg |-> "med",
                 ret |-> median(AsF64(samples))]>>
    /\ UNCHANGED <<timing, feed, phase, delivered, hist, sessions, closes,
                   invoked, tf, tpf, tcf, tcn, twin, samples, runtime>>

InitAgg ==
    /\ timing = FALSE
    /\ feed = "short"
    /\ DriverInit
    /\ OneSeed
    /\ samples \in SampleSeqs
    /\ out = <<>>

NextAgg == aggregate_call \/ get_features_call \/ median_call

\* connection_features.rs, aggregate and get_features on a slice
SpecAgg == InitAgg /\ [][NextAgg]_vars

NextConn ==
    \/ CF_pre_match \/ CF_post_match \/ CF_on_match_step \/ CF_on_terminate
    \/ drop_packet \/ get_features_call

\* connection_features.rs, a short flow with its session events
SpecConn == InitConn /\ [][NextConn]_vars

(* ---- the elapsed-time offset of a pair of counter readings ---- *)

Readings == 0..MaxReading

\* connection_features.rs, with overflow checks compiled in or not
CF_delta_ns_call ==
    \E checks \in BOOLEAN :
        /\ out = <<>>
        /\ out' = <<[call |-> "connection_features", checks |-> checks,
                     ret |-> IF checks THEN CF_delta_ns(samples[2], samples[1])
                             ELSE Some(CF_delta_ns_wrapping(samples[2], samples[1]))]>>
        /\ UNCHANGED <<timing, feed, phase, delivered, hist, sessions, closes,
                       invoked, tf, tpf, tcf, tcn, twin, samples, runtime>>

\* conn_features.rs
CN_delta_ns_call ==
    /\ out = <<>>
    /\ out' = <<[call |-> "conn_features", checks |-> TRUE,
                 ret |-> Some(CN_delta_ns(samples[2], samples[1]))]>>
    /\ UNCHANGED <<timing, feed, phase, delivered, hist, sessions, closes,
                   invoked, tf, tpf, tcf, tcn, twin, samples, runtime>>

\* packet_features.rs
PF_delta_ns_call ==
    /\ out = <<>>
    /\ out' = <<[call |-> "packet_features", checks |-> TRUE,
                 ret |-> Some(PF_delta_ns(samples[2], samples[1]))]>>
    /\ UNCHANGED <<timing, feed, phase, delivered, hist, sessions, closes,
                   invoked, tf, tpf, tcf, tcn, twin, samples, runtime>>

\* samples holds <<start_tsc, curr_tsc>>
InitClock ==
    /\ timing = FALSE
    /\ feed = "short"
    /\ DriverInit
    /\ OneSeed
    /\ samples \in {<<start, now>> : start \in Readings, now \in Readings}
    /\ out = <<>>

NextClock == CF_delta_ns_call \/ CN_delta_ns_call \/ PF_delta_ns_call

\* the offset of a later reading from start_tsc, in the three files that
\* compute one
SpecClock == InitClock /\ [][NextClock]_vars

(* ---- the workers of the runtime ---- *)

flow_vars == <<timing, feed, phase, delivered, hist, sessions, closes, invoked,
               tf, tpf, tcf, tcn, twin, samples, out>>

\* the worker of core c hands a packet of one of its flows to update(),
\* which counts it: self.cnt += 1
Worker_rx(c) ==
    /\ ~runtime.stopped
    /\ runtime.workers[c].pc = "idle"
    /\ runtime.workers[c].pkts < MaxCorePkts
    /\ runtime' = [runtime EXCEPT !.workers[c].pc = "update",
                                  !.workers[c].pkts = @ + 1]
    /\ UNCHANGED flow_vars

\* *TSC_GHZ in update() on core c finds the cell without a value and
\* starts the initializer; a dereference on another core waits for it
Lazy_init(c) ==
    /\ runtime.workers[c].pc = "update"
    /\ runtime.tsc_ghz.state = "uninit"
    /\ runtime' = [runtime EXCEPT !.workers[c].pc = "init",
                                  !.tsc_ghz.state = "running",
                                  !.tsc_ghz.by = c]
    /\ UNCHANGED flow_vars

\* the initializer returns rte_get_tsc_hz() as f64 / 1e9 into the cell
Lazy_done(c) ==
    /\ runtime.workers[c].pc = "init"
    /\ runtime' = [runtime EXCEPT !.workers[c].pc = "update",
                                  !.tsc_ghz.state = "done",
                                  !.tsc_ghz.value = Num(TSC_GHZ),
                                  !.tsc_ghz.writes = @ + 1]
    /\ UNCHANGED flow_vars

\* update() on core c reads the value of the cell and finishes the packet
Worker_update(c) ==
    /\ runtime.workers[c].pc = "update"
    /\ runtime.tsc_ghz.state = "done"
    /\ runtime' = [runtime EXCEPT
                       !.workers[c].pc = "idle",
                       !.workers[c].seen = @ \cup {runtime.tsc_ghz.value}]
    /\ UNCHANGED flow_vars

\* a flow of core c that has had a packet ends: on_terminate invokes the
\* callback of main(), which counts the record
Worker_callback(c) ==
    /\ ~runtime.stopped
    /\ runtime.workers[c].pc = "idle"
    /\ runtime.workers[c].flows < runtime.workers[c].pkts
    /\ runtime' = [runtime EXCEPT !.workers[c].flows = @ + 1,
                                  !.cnt = fetch_add(@, c)]
    /\ UNCHANGED flow_vars

\* runtime.run() returns once every worker is idle; main() reports cnt
Shutdown ==
    /\ ~runtime.stopped
    /\ \A c \in Cores : runtime.workers[c].pc = "idle"
    /\ runtime' = [runtime EXCEPT !.stopped = TRUE,
                                  !.num_conns = Some(runtime.cnt.value)]
    /\ UNCHANGED flow_vars

InitCores ==
    /\ timing = TRUE
    /\ feed = "short"
    /\ DriverInit
    /\ OneSeed
    /\ NoSlice

NextCores ==
    \/ \E c \in Cores :
           \/ Worker_rx(c)
           \/ Lazy_init(c)
           \/ Lazy_done(c)
           \/ Worker_update(c)
           \/ Worker_callback(c)
    \/ Shutdown

\* the workers of the process, each on its own core
SpecCores == InitCores /\ [][NextCores]_vars

(* ---- the offsets of two successive packets of a long flow ---- *)

\* The readings of a long flow are whole multiples of 2^30 cycles and are
\* counted in steps of 2^29 cycles; at TSC_HZ their offsets are then whole
\* numbers of steps of 2^29 ns.
LongReadings == {2 * q : q \in 0..MaxSpan}

\* rte_rdtsc() as u32: the reading modulo 2^32
u64_as_u32(tsc) == tsc % U32Span

\* (... * 1e9) as u32 on a non-negative f64: the value, or u32::MAX beyond
\* the u32 range; U32Span stands for u32::MAX, which lies above every whole
\* number of steps within the range
f64_as_u32(ns) == IF ns >= U32Span THEN U32Span ELSE ns

\* packet_features.rs: start_tsc and the readings are u64
PF_offsets_call ==
    /\ out = <<>>
    /\ out' = <<[call |-> "packet_features",
                 ret |-> [i \in 1..2 |->
                            f64_as_u32(PF_delta_ns(samples[i + 1], samples[1]))]]>>
    /\ UNCHANGED <<timing, feed, phase, delivered, hist, sessions, closes,
                   invoked, tf, tpf, tcf, tcn, twin, samples, runtime>>

\* conn_features.rs: start_tsc and the readings are cast to u32
CN_offsets_call ==
    /\ out = <<>>
    /\ out' = <<[call |-> "conn_features",
                 ret |-> [i \in 1..2 |->
                            f64_as_u32(CN_delta_ns(u64_as_u32(samples[i + 1]),
                                                   u64_as_u32(samples[1])))]]>>
    /\ UNCHANGED <<timing, feed, phase, delivered, hist, sessions, closes,
                   invoked, tf, tpf, tcf, tcn, twin, samples, runtime>>

\* samples holds <<start_tsc, reading at one packet, reading at the next>>
\* of a counter that does not decrease
InitDrift ==
    /\ timing = FALSE
    /\ feed = "short"
    /\ DriverInit
    /\ OneSeed
    /\ samples \in {<<start, a, b>> : start \in LongReadings,
                       a \in LongReadings, b \in LongReadings}
    /\ samples[1] <= samples[2]
    /\ samples[2] <= samples[3]
    /\ out = <<>>

NextDrift == PF_offsets_call \/ CN_offsets_call

\* the offsets recorded for two successive packets, seconds into a flow
SpecDrift == InitDrift /\ [][NextDrift]_vars

(* ---- the callback of log_features on the workers ---- *)

\* a write_all of the callback for record rec of core c
Written(c, part) == [core |-> c, rec |-> runtime.workers[c].flows, part |-> part]

\* a flow of core c ends: the callback builds its record and serializes it
Log_callback(c) ==
    /\ ~runtime.stopped
    /\ runtime.workers[c].pc = "idle"
    /\ runtime.workers[c].flows < MaxCorePkts
    /\ runtime' = [runtime EXCEPT !.workers[c].pc = "serialized",
                                  !.workers[c].flows = @ + 1]
    /\ UNCHANGED flow_vars

\* let mut wtr = file.lock().unwrap()
Log_lock(c) ==
    /\ runtime.workers[c].pc = "serialized"
    /\ lock_free(runtime.lock)
    /\ runtime' = [runtime EXCEPT !.workers[c].pc = "locked", !.lock = c]
    /\ UNCHANGED flow_vars

\* wtr.write_all(serialized.as_bytes())
Log_write_json(c) ==
    /\ runtime.workers[c].pc = "locked"
    /\ runtime' = [runtime EXCEPT !.workers[c].pc = "json",
                                  !.file = Append(@, Written(c, "json"))]
    /\ UNCHANGED flow_vars

\* wtr.write_all(b"\n")
Log_write_nl(c) ==
    /\ runtime.workers[c].pc = "json"
    /\ runtime' = [runtime EXCEPT !.workers[c].pc = "nl",
                                  !.file = Append(@, Written(c, "nl"))]
    /\ UNCHANGED flow_vars

\* cnt.fetch_add(1, Ordering::Relaxed), the guard still held
Log_count(c) ==
    /\ runtime.workers[c].pc = "nl"
    /\ runtime' = [runtime EXCEPT !.workers[c].pc = "counted",
                                  !.cnt = fetch_add(@, c)]
    /\ UNCHANGED flow_vars

\* the guard is dropped at the end of the if-let block
Log_unlock(c) ==
    /\ runtime.workers[c].pc = "counted"
    /\ runtime' = [runtime EXCEPT !.workers[c].pc = "idle",
                                  !.lock = IF @ = c THEN 0 ELSE @]
    /\ UNCHANGED flow_vars

\* runtime.run() returns once every worker is idle; main() flushes the
\* file and reports cnt
Log_shutdown ==
    /\ ~runtime.stopped
    /\ \A c \in Cores : runtime.workers[c].pc = "idle"
    /\ runtime' = [runtime EXCEPT !.stopped = TRUE,
                                  !.num_conns = Some(runtime.cnt.value)]
    /\ UNCHANGED flow_vars

NextLog ==
    \/ \E c \in Cores :
           \/ Log_callback(c)
           \/ Log_lock(c)
           \/ Log_write_json(c)
           \/ Log_write_nl(c)
           \/ Log_count(c)
           \/ Log_unlock(c)
    \/ Log_shutdown

\* log_features, the callback on the workers of the process
SpecLog == InitCores /\ [][NextLog]_vars

(* ---- a running byte total near the end of its range ---- *)

\* totals a flow of the model's packets reaches: 0 and multiples of 4
\* just below i32::MAX
Totals == {0} \cup {I32_MAX - 3 - 4 * j : j \in 0..MaxSlack}

\* features_s_bytes_sum.rs update() on the tracked total held in samples,
\* with overflow checks compiled in or not
SB_update_call ==
    \E p \in Packets, checks \in BOOLEAN :
        /\ out = <<>>
        /\ out' = <<[call |-> "s_bytes_sum", p |-> Ghost(p), checks |-> checks,
                     ret |-> SB_update([SB_new EXCEPT !.s_bytes_sum = samples[1]],
                                       p, checks)]>>
        /\ UNCHANGED <<timing, feed, phase, delivered, hist, sessions, closes,
                       invoked, tf, tpf, tcf, tcn, twin, samples, runtime>>

InitSum ==
    /\ timing = FALSE
    /\ feed = "short"
    /\ DriverInit
    /\ OneSeed
    /\ samples \in {<<total>> : total \in Totals}
    /\ out = <<>>

NextSum == SB_update_call

\* features_s_bytes_sum.rs, one more packet on a running total
SpecSum == InitSum /\ [][NextSum]_vars

(* ---- the same flow through two TrackedPacketFeatures ---- *)

\* cycles by which the second run reads the counter later than the first
Jitter == {TSC_GHZ * j : j \in 0..MaxJitter}

Replay_packet ==
    \E p \in Packets, j \in Jitter :
        LET k == delivered + 1
            t1 == PF_update(tpf, Stamp(p, k), rte_rdtsc(k))
            t2 == PF_update(twin.t, Stamp(p, k), rte_rdtsc(k) + j)
        IN  /\ phase \in {"Open", "Matched"}
            /\ delivered < FlowLen
            /\ p \in Offered(k)
            /\ delivered' = delivered + 1
            /\ hist' = Append(hist, Ghost(p))
            /\ tpf' = t1
            /\ IF PF_early_terminate(t1)
               THEN /\ invoked' = Append(invoked, PF_record(t1))
                    /\ twin' = [t |-> t2, invoked |-> Append(twin.invoked, PF_record(t2))]
                    /\ phase' = "Terminated"
               ELSE /\ twin' = [twin EXCEPT !.t = t2]
                    /\ UNCHANGED <<invoked, phase>>
            /\ UNCHANGED <<timing, feed, sessions, closes, tf, tcf, samples, out, tcn,
                    runtime>>

Replay_on_match ==
    \E s \in Sessions :
        /\ phase \in {"Open", "Matched"}
        /\ Len(sessions) < MaxSessions
        /\ tpf' = PF_on_match(tpf, s)
        /\ twin' = [twin EXCEPT !.t = PF_on_match(twin.t, s)]
        /\ sessions' = Append(sessions, s)
        /\ phase' = "Matched"
        /\ UNCHANGED <<timing, feed, delivered, hist, closes, invoked, tf, tcf,
                       samples, out, tcn, runtime>>

Replay_on_terminate ==
    /\ MayClose
    /\ closes' = closes + 1
    /\ invoked' = Append(invoked, PF_record(tpf))
    /\ twin' = [twin EXCEPT !.invoked = Append(@, PF_record(twin.t))]
    /\ phase' = "Terminated"
    /\ UNCHANGED <<timing, feed, delivered, hist, sessions, tf, tpf, tcf,
                   samples, out, tcn, runtime>>

\* the second instance is created as its run's first packet arrives
InitReplay ==
    /\ timing = FALSE
    /\ feed = "short"
    /\ phase = "Open"
    /\ delivered = 0
    /\ hist = <<>>
    /\ sessions = <<>>
    /\ closes = 0
    /\ invoked = <<>>
    /\ tf = TF_new
    /\ tpf = PF_new
    /\ tcn = TCN_new
    /\ runtime = Runtime_new
    /\ \E j \in Jitter :
           twin = [t |-> [PF_new EXCEPT !.start_tsc = rte_rdtsc(1) + j],
                   invoked |-> <<>>]
    /\ OneSeed
    /\ NoSlice

NextReplay == Replay_packet \/ Replay_on_match \/ Replay_on_terminate \/ drop_packet

\* packet_features.rs, one flow through two fresh instances
SpecReplay == InitReplay /\ [][NextReplay]_vars

Init == timing \in BOOLEAN /\ feed = "any" /\ DriverInit /\ OneSeed /\ NoSlice

Next == TF_pre_match \/ TF_post_match \/ TF_on_terminate \/ drop_packet

\* features.rs, packets and closure
Spec == Init /\ [][Next]_vars

InitMatch == timing \in BOOLEAN /\ feed = "short" /\ DriverInit /\ OneSeed /\ NoSlice

NextMatch ==
    TF_pre_match \/ TF_post_match \/ TF_on_match_step \/ TF_on_terminate \/ drop_packet

\* features.rs, a short flow with its session events
SpecMatch == InitMatch /\ [][NextMatch]_vars

----------------------------------------------------------------------------
(* Properties of features.rs.                                              *)

\* the k-th packet handed to the instance, as it was on the wire
Wire(k) == Pkt(hist[k].dir, hist[k].kind)

\* packets update() gets past the Ethernet and IPv4 parse with
Accumulated == {k \in 1..Len(hist) : Wire(k).ipv4}

\* time of the k-th packet in the unit of the record (nanoseconds)
PacketTime(k) ==
    IF timing THEN Num(ArrivalTime(k)) ELSE Num(1000 * ArrivalTime(k))

FirstIdx(S) == CHOOSE k \in S : \A j \in S : k <= j

TimeOfFirst(S) == IF S = {} THEN NAN ELSE PacketTime(FirstIdx(S))

OrigIdx == {k \in Accumulated : Wire(k).dir}

SynAckIdx == {k \in Accumulated : ~Wire(k).dir /\ Wire(k).syn /\ Wire(k).ack}

AckIdx ==
    {k \in Accumulated : /\ Wire(k).dir /\ Wire(k).tcp /\ Wire(k).ack
                         /\ SynAckIdx # {}
                         /\ k > FirstIdx(SynAckIdx)}

\* the n-th least member of S
Nth(S, n) == CHOOSE k \in S : Cardinality({j \in S : j <= k}) = n

\* the flow opens with SYN, SYN+ACK, ACK among the packets it accumulates
HandshakeFlow ==
    /\ Cardinality(Accumulated) >= 3
    /\ Ghost(Wire(Nth(Accumulated, 1))) = [dir |-> TRUE, kind |-> "SYN"]
    /\ Ghost(Wire(Nth(Accumulated, 2))) = [dir |-> FALSE, kind |-> "SYNACK"]
    /\ Ghost(Wire(Nth(Accumulated, 3))) = [dir |-> TRUE, kind |-> "ACK"]

\* C5: a flow whose accumulated packets open with originator SYN at t0,
\* responder SYN+ACK at t1 and originator ACK at t2 is emitted with
\* syn_ack = t1 - t0, ack_dat = t2 - t1 and tcp_rtt = t2 - t0.
C5_HandshakeTiming ==
    \A i \in 1..Len(invoked) :
        HandshakeFlow =>
            LET t0 == PacketTime(Nth(Accumulated, 1))
                t1 == PacketTime(Nth(Accumulated, 2))
                t2 == PacketTime(Nth(Accumulated, 3))
            IN  /\ invoked[i].syn_ack = FSub(t1, t0)
                /\ invoked[i].ack_dat = FSub(t2, t1)
                /\ invoked[i].tcp_rtt = FSub(t2, t0)

\* the flow SYN@0, SYN+ACK@10, ACK@15, data@16 emitted with 10, 5 and 15
C5_Witness ==
    /\ timing
    /\ hist = << [dir |-> TRUE, kind |-> "SYN"], [dir |-> FALSE, kind |-> "SYNACK"],
                 [dir |-> TRUE, kind |-> "ACK"], [dir |-> TRUE, kind |-> "ACK"] >>
    /\ Len(invoked) = 1
    /\ invoked[1].syn_ack = Num(10)
    /\ invoked[1].ack_dat = Num(5)
    /\ invoked[1].tcp_rtt = Num(15)

HandshakeRecorded ==
    /\ tf.syn_ts = TimeOfFirst(OrigIdx)
    /\ tf.syn_ack_ts = TimeOfFirst(SynAckIdx)
    /\ tf.ack_ts = TimeOfFirst(AckIdx)

HandshakeWrittenOnce ==
    /\ ~is_nan(tf.syn_ts) => tf'.syn_ts = tf.syn_ts
    /\ ~is_nan(tf.syn_ack_ts) => tf'.syn_ack_ts = tf.syn_ack_ts
    /\ ~is_nan(tf.ack_ts) => tf'.ack_ts = tf.ack_ts

\* C6: over the packets update() accumulates, syn_ts is the time of the first
\* originator packet, syn_ack_ts the time of the first responder SYN+ACK and
\* ack_ts the time of the first originator ACK after that SYN+ACK; a
\* timestamp that is set is never written again.
C6_HandshakeRecording == []HandshakeRecorded /\ [][HandshakeWrittenOnce]_vars

\* all three timestamps set, and one more originator ACK has gone by
C6_Witness ==
    /\ Len(hist) = 4
    /\ Ghost(Wire(1)) = [dir |-> TRUE, kind |-> "SYN"]
    /\ Ghost(Wire(2)) = [dir |-> FALSE, kind |-> "SYNACK"]
    /\ Ghost(Wire(3)) = [dir |-> TRUE, kind |-> "ACK"]
    /\ Ghost(Wire(4)) = [dir |-> TRUE, kind |-> "ACK"]
    /\ tf.syn_ts = PacketTime(1)
    /\ tf.syn_ack_ts = PacketTime(2)
    /\ tf.ack_ts = PacketTime(3)

\* C7: a record emitted for a flow with no packet in one direction carries
\* 0.0 for that direction's sum and means, as aggregate() does for an empty
\* slice.
C7_EmptySentinel ==
    \A i \in 1..Len(invoked) :
        /\ invoked[i].d_pkt_cnt = Num(0) =>
               /\ invoked[i].d_bytes_sum = Num(0)
               /\ invoked[i].d_bytes_mean = Num(0)
               /\ invoked[i].d_ttl_mean = Num(0)
        /\ invoked[i].s_pkt_cnt = Num(0) =>
               /\ invoked[i].s_bytes_sum = Num(0)
               /\ invoked[i].s_bytes_mean = Num(0)
               /\ invoked[i].s_ttl_mean = Num(0)

\* a flow of originator packets only has been emitted
C7_Witness ==
    /\ Len(invoked) >= 1
    /\ OrigIdx # {}
    /\ invoked[1].d_pkt_cnt = Num(0)

----------------------------------------------------------------------------
(* Properties of the lifecycle.                                            *)

\* C1: a flow that has ended, by early termination or by closure, has had
\* Subscription::invoke called exactly once.
C1_InvokedExactlyOnce == phase = "Terminated" => Len(invoked) = 1

\* early termination, the rest of the flow dropped, then the closure signal
C1_Witness ==
    /\ feed \in BulkFeeds
    /\ delivered = FlowLen
    /\ closes = 1
    /\ Len(invoked) >= 1
    /\ Len(invoked[1].packets) = PKT_CEILING

AlreadyTerminatedIsNoOp ==
    phase = "Terminated" /\ closes' = closes + 1 =>
        invoked' = invoked /\ tf' = tf

\* C2: on_terminate on a flow that has already terminated calls
\* Subscription::invoke no more and leaves the tracked state as it was.
C2_TerminateIdempotent == [][AlreadyTerminatedIsNoOp]_vars

\* on_terminate has been called on a terminated flow
C2_Witness == phase = "Terminated" /\ closes = 2

TlsSessions == SelectSeq(sessions, LAMBDA s : s.proto = "tls")

\* C3: the record of a flow that was handed TLS sessions carries the server
\* name of the first of them.
C3_FirstMatchWins ==
    \A i \in 1..Len(invoked) :
        TlsSessions # <<>> => invoked[i].sni = TlsSessions[1].sni

\* two TLS sessions with distinct names, then the record
C3_Witness ==
    /\ Len(TlsSessions) = 2
    /\ TlsSessions[1].sni # TlsSessions[2].sni
    /\ Len(invoked) >= 1

\* packets PacketFeature::from accepts, by position in the flow
Accepted ==
    SelectSeq([k \in 1..Len(hist) |-> k],
              LAMBDA k : Wire(k).ipv4 /\ Wire(k).tcp)

\* the sample of the k-th packet of the flow
SampleOf(k) ==
    [ dir |-> IF Wire(k).dir THEN 1 ELSE 0,
      delta_ns |-> ArrivalTime(k) - ArrivalTime(1),
      ip_total_length |-> Wire(k).total_length,
      ip_ttl |-> Wire(k).ttl,
      ip_protocol |-> Wire(k).protocol,
      tcp_flags_syn |-> IF Wire(k).syn THEN 1 ELSE 0,
      tcp_flags_ack |-> IF Wire(k).ack THEN 1 ELSE 0 ]

FirstSamples(n) == LET acc == Accepted IN [i \in 1..n |-> SampleOf(acc[i])]

----------------------------------------------------------------------------
(* Properties of connection_features.rs and of replay.                     *)

\* the slice in ascending order
SortedSamples == sort_by(AsF64(samples))

\* the lower and the upper half of the sorted slice, the middle value in both
LowerHalf == SubSeq(SortedSamples, 1, (Len(samples) + 1) \div 2)

UpperHalf == SubSeq(SortedSamples, Len(samples) \div 2 + 1, Len(samples))

Returned(agg) == out # <<>> /\ out[1].call = "aggregate" /\ out[1].agg = agg

\* C8: on a non-empty slice aggregate returns the least and the greatest
\* value as min and max, the median as med, the medians of the lower and of
\* the upper half (the middle value in both) as q1 and q3, and the sum, the
\* mean and the number of distinct values.
C8_QuantileCorrect ==
    samples # <<>> =>
        /\ Returned("min") => \A i \in 1..Len(samples) : ~FLess(Num(samples[i]), out[1].ret)
        /\ Returned("max") => \A i \in 1..Len(samples) : ~FLess(out[1].ret, Num(samples[i]))
        /\ Returned("min") \/ Returned("max") => out[1].ret \in Range(AsF64(samples))
        /\ Returned("med") => out[1].ret = median(SortedSamples)
        /\ Returned("q1") => out[1].ret = median(LowerHalf)
        /\ Returned("q3") => out[1].ret = median(UpperHalf)
        /\ Returned("sum") => out[1].ret = Num(SumU32(samples))
        /\ Returned("mean") => out[1].ret = Ratio(SumU32(samples), Len(samples))
        /\ Returned("dist") => out[1].ret = Num(Cardinality(Range(samples)))

\* q1 of the samples 1, 2, 3, 4, 5 has been computed
C8_Witness == samples = ExampleSamples /\ Returned("q1")

\* the quartiles aggregate returns for the samples 1, 2, 3, 4, 5
C8_ExampleQuartiles ==
    samples = ExampleSamples =>
        /\ Returned("q1") => out[1].ret = Ratio(5, 3)
        /\ Returned("q3") => out[1].ret = Ratio(13, 3)
        /\ Returned("med") => out[1].ret = Num(3)

\* C9: the same packets and sessions through two fresh instances give the
\* same records.
C9_ReplayIdentical == twin.invoked = invoked

\* both runs have emitted the record of a flow with an accepted packet
C9_Witness ==
    /\ Len(invoked) = 1
    /\ Len(twin.invoked) = 1
    /\ invoked[1].packets # <<>>

LaidOut(ret, f, n_pkts) ==
    /\ Len(ret) = Len(PACKET_FT_CLASSES) * Len(AGGREGATORS)
    /\ \A i \in 0..(Len(PACKET_FT_CLASSES) - 1), j \in 0..(Len(AGGREGATORS) - 1) :
           LET raw == f.pkt_data[PACKET_FT_CLASSES[i + 1]]
               n == IF n_pkts = None THEN Len(raw) ELSE n_pkts[1]
           IN  ret[i * 12 + j + 1] = aggregate(AGGREGATORS[j + 1], SubSeq(raw, 1, n))

\* C10: get_features returns one value per class and aggregator, that of
\* class i and aggregator j at index i * 12 + j, and the serialized record
\* lists the classes of orig and of resp in the one order of the class table.
C10_StableLayout ==
    /\ (out # <<>> /\ out[1].call = "get_features" /\ out[1].ret # <<PANIC>>) =>
           LaidOut(out[1].ret, FlowFeatures_of(samples), out[1].n_pkts)
    /\ \A i \in 1..Len(invoked) :
           /\ serialized_keys(invoked[i].orig) = PACKET_FT_CLASSES
           /\ serialized_keys(invoked[i].resp) = PACKET_FT_CLASSES

\* a record whose two maps were created with different seeds has been emitted
C10_Witness ==
    /\ Len(invoked) >= 1
    /\ invoked[1].orig.seed # invoked[1].resp.seed

\* the layout of get_features alone
C10_VectorLayout ==
    (out # <<>> /\ out[1].call = "get_features" /\ out[1].ret # <<PANIC>>) =>
        LaidOut(out[1].ret, FlowFeatures_of(samples), out[1].n_pkts)

----------------------------------------------------------------------------
(* Properties of update under packets it cannot parse.                     *)

\* the packets handed on so far, by their number in the flow
Handed == [k \in 1..Len(hist) |-> k]

\* the same sequence with the packets that fail the IPv4 parse removed
Parsed == SelectSeq(Handed, LAMBDA k : Wire(k).ipv4)

\* update applied in turn to the packets numbered ks, each with the
\* timestamp and counter reading it arrived with
RECURSIVE Fed(_, _)
Fed(t, ks) ==
    IF ks = <<>> THEN t
    ELSE Fed(TF_update(t, timing, Stamp(Wire(Head(ks)), Head(ks)),
                       rte_rdtsc(Head(ks))),
             Tail(ks))

\* C11: the record emitted for a packet sequence equals the record emitted
\* for the same sequence with the packets that fail the Ethernet or IPv4
\* parse removed, the recorded MAC addresses included.
C11_UnparseableExcluded ==
    invoked # <<>> =>
        invoked[1] = TF_extract_features(Fed(TF_new, Parsed), timing)

\* a flow led by an unparseable frame is emitted after an originator packet
C11_Witness ==
    /\ invoked # <<>>
    /\ Len(hist) >= 2
    /\ ~Wire(1).ipv4
    /\ Wire(2).ipv4 /\ Wire(2).dir
    /\ invoked[1] = TF_extract_features(Fed(TF_new, Handed), timing)

----------------------------------------------------------------------------
(* Properties of the memory a flow retains.                                *)

\* raw samples retained by TrackedFeatures, both directions
TF_retained == Len(tf.s_bytes_hist) + Len(tf.d_bytes_hist)

\* C12: the number of raw samples a flow retains (the byte-size history the
\* median is computed from), summed over both directions, never exceeds the
\* early-termination ceiling, however many packets the flow carries.
C12_RetainedBounded == TF_retained <= PKT_CEILING

\* a flow of more packets than the ceiling, every one of them observed
C12_Witness ==
    /\ delivered > PKT_CEILING
    /\ TF_retained = delivered
    /\ phase = "Open"

----------------------------------------------------------------------------
(* Properties of conn_features.rs.                                         *)

\* the per-class sample sequences of a FlowFeatures: its delta_ns vector
\* and the vectors of pkt_data
SampleLens(f) ==
    {Len(f.delta_ns)} \cup {Len(f.pkt_data[c]) : c \in DOMAIN f.pkt_data}

\* packet_cnt is the length of every sample sequence of f
CountsAgree(f) == \A n \in SampleLens(f) : n = f.packet_cnt

\* C13: in every reachable FlowFeatures state packet_cnt equals the length
\* of every per-class sample sequence (delta_ns, each ip_*, each tcp_*),
\* whatever mix of TCP, non-TCP IPv4 and non-IPv4 frames has been observed.
C13_CountMatchesSamples ==
    tcn # PANIC => CountsAgree(tcn.ctos) /\ CountsAgree(tcn.stoc)

\* a non-IPv4 Ethernet frame has been observed and the thread lives
C13_Witness ==
    /\ tcn # PANIC
    /\ hist # <<>>
    /\ ~Wire(Len(hist)).ipv4
    /\ Len(tcn.ctos.delta_ns) = Len(hist)

----------------------------------------------------------------------------
(* Properties of packet_features.rs under a packet without a TCP header.   *)

\* C14: a parse miss of one layer omits that layer's samples only: every
\* IPv4 packet handed to an open flow leaves a sample with its IP-derived
\* fields, whether or not it carries a TCP header.
C14_LayerMissKeepsIp ==
    phase = "Open" =>
        /\ Len(tpf.packets) = Cardinality(Accumulated)
        /\ (hist # <<>> /\ Wire(Len(hist)).ipv4) =>
               /\ tpf.packets # <<>>
               /\ tpf.packets[Len(tpf.packets)].ip_total_length
                      = Wire(Len(hist)).total_length
               /\ tpf.packets[Len(tpf.packets)].ip_protocol
                      = Wire(Len(hist)).protocol

\* an IPv4 datagram without a TCP header has been handed to an open flow
C14_Witness ==
    /\ phase = "Open"
    /\ hist # <<>>
    /\ Wire(Len(hist)).ipv4
    /\ ~Wire(Len(hist)).tcp

----------------------------------------------------------------------------
(* Properties of the elapsed-time offset.                                  *)

\* C15: for every pair (start, now) of counter readings, now < start after
\* truncation or wrap-around included, the offset is 0 when now < start and
\* non-negative otherwise, and computing it never overflows or panics.
C15_SaturatingOffset ==
    \A i \in DOMAIN out :
        /\ out[i].ret # None
        /\ IF samples[2] < samples[1]
           THEN out[i].ret = Some(0)
           ELSE out[i].ret[1] >= 0

\* an offset has been computed for a reading below start_tsc
C15_Witness ==
    /\ out # <<>>
    /\ samples[2] < samples[1]
    /\ out[1].call = "connection_features"

----------------------------------------------------------------------------
(* Frame properties of features.rs.                                        *)

\* new is old, or old with one element appended
AppendOnly(old, new) ==
    \/ new = old
    \/ /\ Len(new) = Len(old) + 1
       /\ SubSeq(new, 1, Len(old)) = old

\* a step of pre_match or post_match: the steps that hand a packet on
Observe == hist' # hist

\* C16: accumulation is append-only: after any observe step (pre_match or
\* post_match) every retained sample sequence is its previous value, or its
\* previous value with one element appended at the end.
C16_AppendOnly ==
    [][Observe => /\ AppendOnly(tf.s_bytes_hist, tf'.s_bytes_hist)
                  /\ AppendOnly(tf.d_bytes_hist, tf'.d_bytes_hist)]_vars

\* both histories hold two sizes that arrived in descending order
C16_Witness ==
    /\ phase = "Open"
    /\ Len(tf.s_bytes_hist) = 2 /\ Len(tf.d_bytes_hist) = 2
    /\ FLess(tf.s_bytes_hist[2], tf.s_bytes_hist[1])
    /\ FLess(tf.d_bytes_hist[2], tf.d_bytes_hist[1])

\* a step that emits a record: on_terminate, which calls extract_features
Finalize == invoked' # invoked

\* the total_length of the accumulated packets of one direction, in
\* arrival order
ArrivalSizes(dir) ==
    LET ks == SelectSeq(Handed, LAMBDA k : Wire(k).ipv4 /\ Wire(k).dir = dir)
    IN  [i \in 1..Len(ks) |-> Num(Wire(ks[i]).total_length)]

\* C17: finalization sorts a copy: computing the median and the record
\* leaves the retained histories unchanged and in arrival order, so the
\* tracked state after extract_features equals the state before it.
C17_FinalizeLeavesState ==
    [][Finalize => /\ tf' = tf
                   /\ tf'.s_bytes_hist = ArrivalSizes(TRUE)
                   /\ tf'.d_bytes_hist = ArrivalSizes(FALSE)]_vars

\* a record has been emitted for a flow whose originator sizes arrived in
\* descending order
C17_Witness ==
    /\ invoked # <<>>
    /\ Len(ArrivalSizes(TRUE)) >= 2
    /\ FLess(ArrivalSizes(TRUE)[2], ArrivalSizes(TRUE)[1])

\* the statistics update() keeps for the originator
OrigStats(t) ==
    << t.s_last_ts, t.s_pkt_cnt, t.s_bytes_sum, t.s_ttl_sum, t.s_bytes_min,
       t.s_bytes_max, t.s_bytes_hist, t.syn_ts, t.ack_ts, t.s_mac >>

\* the statistics update() keeps for the responder
RespStats(t) ==
    << t.d_last_ts, t.d_pkt_cnt, t.d_bytes_sum, t.d_ttl_sum, t.d_bytes_min,
       t.d_bytes_max, t.d_bytes_hist, t.syn_ack_ts >>

\* the packet handed on by this step is an originator packet
HandsOnOrig == Observe /\ hist'[Len(hist')].dir

\* the packet handed on by this step is a responder packet
HandsOnResp == Observe /\ ~hist'[Len(hist')].dir

C19_PrePostSame ==
    /\ \A p \in Packets :
           pre_match(tf, timing, Arrival(p)[1], Arrival(p)[2])
               = post_match(tf, timing, Arrival(p)[1], Arrival(p)[2])
    /\ invoked # <<>> =>
           invoked[1] = TF_extract_features(
                            [Fed(TF_new, Handed) EXCEPT !.sni = tf.sni], timing)

\* a record has been emitted for a flow of two accumulated packets with a
\* session match
C19_Witness ==
    /\ invoked # <<>>
    /\ sessions # <<>>
    /\ Len(hist) = 2
    /\ FAdd(invoked[1].s_pkt_cnt, invoked[1].d_pkt_cnt) = Num(2)

\* a step of on_match, and the session it hands over
Matches == sessions' # sessions

Matched == sessions'[Len(sessions')]

\* the record this step emits
Emitted == invoked'[Len(invoked')]

\* C20: on_match changes the session identity only: a TLS session sets sni
\* to its server name, any other session leaves sni as it is, and both
\* accumulators are unchanged; the record emitted at termination carries the
\* tracked sni, the empty string when no TLS session matched.
C20_OnMatchSetsSniOnly ==
    [][/\ Matches =>
            /\ tcn'.sni = IF Matched.proto = "tls" THEN Matched.sni ELSE tcn.sni
            /\ tcn'.ctos = tcn.ctos
            /\ tcn'.stoc = tcn.stoc
       /\ Finalize =>
            /\ Emitted.sni = tcn.sni
            /\ Emitted.orig = tcn.ctos
            /\ Emitted.resp = tcn.stoc
            /\ (\A i \in DOMAIN sessions : sessions[i].proto # "tls")
                   => Emitted.sni = ""]_vars

\* a record carries the server name of a TLS session that was followed by
\* a session of another protocol, after a frame was accumulated
C20_Witness ==
    /\ invoked # <<>>
    /\ hist # <<>>
    /\ sessions = <<[proto |-> "tls", sni |-> "a"], [proto |-> "http", sni |-> ""]>>
    /\ invoked[1].sni = "a"
    /\ invoked[1].orig.delta_ns # <<>>

----------------------------------------------------------------------------
(* Properties of early termination and of the lifecycle.                   *)

\* C21: early_terminate is true exactly when the samples accumulated over
\* both directions have reached the ceiling, false before that, and stays
\* true under further accumulation.
C21_EarlyTerminateAtCeiling ==
    TF_early_terminate(tf) <=> (TF_retained >= PKT_CEILING)

\* an open flow has accumulated as many samples as the ceiling
C21_Witness ==
    /\ phase = "Open"
    /\ TF_retained = PKT_CEILING

----------------------------------------------------------------------------
(* Properties of median and of the aggregators.                            *)

\* samples below v, and samples up to v
Below(v) == Cardinality({i \in DOMAIN samples : samples[i] < v})

UpTo(v) == Cardinality({i \in DOMAIN samples : samples[i] <= v})

\* the k-th value of the samples in ascending order
OrderStat(k) == CHOOSE v \in Range(samples) : Below(v) < k /\ k <= UpTo(v)

\* C23: median of a non-empty sequence is the middle element of the
\* ascending samples when the length is odd and the mean of the two central
\* elements when it is even, for every input order.
C23_MedianCorrect ==
    (samples # <<>> /\ out # <<>> /\ out[1].call = "median") =>
        out[1].ret = IF Len(samples) % 2 = 1
                     THEN Num(OrderStat((Len(samples) + 1) \div 2))
                     ELSE Ratio(OrderStat(Len(samples) \div 2)
                                  + OrderStat(Len(samples) \div 2 + 1), 2)

\* the median of a slice that arrived in descending order has been computed
C23_Witness ==
    /\ out # <<>> /\ out[1].call = "median"
    /\ Len(samples) = 3
    /\ samples[1] > samples[2] /\ samples[2] > samples[3]

\* the sum of the k-th powers of the deviations from the mean, times the
\* (k+1)-th power of the length, which keeps it a whole number
RECURSIVE Pow(_, _)
Pow(x, k) == IF k = 0 THEN 1 ELSE x * Pow(x, k - 1)

Deviation(i) == Len(samples) * samples[i] - SumU32(samples)

RECURSIVE DevSum(_, _)
DevSum(k, i) == IF i = 0 THEN 0 ELSE Pow(Deviation(i), k) + DevSum(k, i - 1)

\* the k-th central moment of the samples, a population statistic
Moment(k) == Ratio(DevSum(k, Len(samples)), Pow(Len(samples), k + 1))

\* C24: on a non-empty slice aggregate returns the population mean as mean,
\* the population standard deviation as std and the kurtosis m4 / m2^2 as
\* kurt (with skew, the moment aggregators), so slices of different
\* kurtosis get different kurt values.
C24_MomentsFromSamples ==
    samples # <<>> =>
        /\ Returned("mean") => out[1].ret = Ratio(SumU32(samples), Len(samples))
        /\ Returned("std") => out[1].ret = FSqrt(Moment(2))
        /\ Returned("kurt") /\ Moment(2) # Num(0) =>
               out[1].ret = FDiv(Moment(4), FMul(Moment(2), Moment(2)))

\* kurt has been computed for a slice whose values differ
C24_Witness ==
    /\ Returned("kurt")
    /\ Len(samples) >= 2
    /\ Moment(2) # Num(0)

\* the packet of the call adds to the originator's byte total
Adds == out[1].p.dir /\ Pkt(out[1].p.dir, out[1].p.kind).ipv4

AddedLength == Pkt(out[1].p.dir, out[1].p.kind).total_length

\* C25: a running byte total saturates: it is the true sum of the observed
\* lengths while that fits the integer width and the maximum value
\* afterwards; it never wraps to a smaller value and never panics.
C25_SumSaturates ==
    out # <<>> =>
        /\ out[1].ret # PANIC
        /\ out[1].ret.s_bytes_sum >= samples[1]
        /\ out[1].ret.s_bytes_sum =
               IF ~Adds THEN samples[1]
               ELSE IF samples[1] <= I32_MAX - AddedLength
                    THEN samples[1] + AddedLength
                    ELSE I32_MAX

\* a packet has been added to a total that it takes beyond i32::MAX
C25_Witness ==
    /\ out # <<>>
    /\ Adds
    /\ samples[1] > I32_MAX - AddedLength

\* positions of the slice whose value has not occurred at an earlier position
FirstOccurrences ==
    {i \in DOMAIN samples : \A j \in 1..(i - 1) : samples[j] # samples[i]}

\* C26: for a non-empty sample sequence, "first" is the first sample in
\* arrival order and "dist" is the number of distinct sample values.
C26_FirstAndDist ==
    (out # <<>> /\ out[1].call = "aggregate" /\ samples # <<>>) =>
        /\ out[1].agg = "first" => out[1].ret = Num(samples[1])
        /\ out[1].agg = "dist" =>
               out[1].ret = Num(Cardinality(FirstOccurrences))

\* "first" has been taken of a slice whose first sample is neither its
\* smallest nor its largest
C26_Witness ==
    /\ out # <<>>
    /\ out[1].call = "aggregate"
    /\ out[1].agg = "first"
    /\ \E i, j \in DOMAIN samples :
           /\ samples[i] < samples[1]
           /\ samples[1] < samples[j]
    /\ out[1].ret = Num(samples[1])

\* in the emitted record f, each direction's TTL mean times its packet
\* count is the TTL sum the flow state holds for that direction
MeanTimesCount(f) ==
    /\ f.s_pkt_cnt # Num(0) => FMul(f.s_ttl_mean, f.s_pkt_cnt) = tf.s_ttl_sum
    /\ f.d_pkt_cnt # Num(0) => FMul(f.d_ttl_mean, f.d_pkt_cnt) = tf.d_ttl_sum

\* C27: in every variant the emitted per-direction TTL mean is the TTL sum
\* divided by the packet count of the same direction, for every flow with
\* at least one packet in that direction.
C27_TtlMeanIsSumOverCount ==
    invoked # <<>> =>
        /\ MeanTimesCount(TF_extract_features(tf, timing))
        /\ MeanTimesCount(TT_extract_features(tf))

\* a flow with packets in both directions has been finalized
C27_Witness ==
    /\ invoked # <<>>
    /\ tf.s_pkt_cnt # Num(0)
    /\ tf.d_pkt_cnt # Num(0)
    /\ TT_extract_features(tf).d_ttl_mean # TF_mean(tf.d_ttl_sum, tf.d_pkt_cnt)

RespIdx == {k \in Accumulated : ~Wire(k).dir}

LastIdx(S) == CHOOSE k \in S : \A j \in S : j <= k

\* mean gap between consecutive packets of the set S of one direction
MeanGap(S) ==
    FDiv(FSub(PacketTime(LastIdx(S)), PacketTime(FirstIdx(S))),
         Num(Cardinality(S) - 1))

\* C28: for n >= 2 packets in a direction the emitted inter-arrival mean of
\* that direction is (time of its last packet - time of its first packet)
\* / (n - 1), whether or not the first responder packet is a SYN+ACK.
C28_IatIsMeanGap ==
    invoked # <<>> =>
        /\ Cardinality(OrigIdx) >= 2 =>
               invoked[Len(invoked)].s_iat_mean = MeanGap(OrigIdx)
        /\ Cardinality(RespIdx) >= 2 =>
               invoked[Len(invoked)].d_iat_mean = MeanGap(RespIdx)

\* a finalized flow with two responder packets, the first of them not a
\* SYN+ACK
C28_Witness ==
    /\ invoked # <<>>
    /\ Cardinality(RespIdx) >= 2
    /\ FirstIdx(RespIdx) \notin SynAckIdx

\* cores whose worker has run the callback of main()
CallbackCores == {c \in Cores : runtime.workers[c].flows > 0}

\* C29: cross-core counters are per-core: a counter is incremented only by
\* the core that owns it and the counters are summed at shutdown; no single
\* counter is modified by callbacks running on more than one core.
C29_CountersPerCore ==
    /\ Cardinality(runtime.cnt.modified_by) <= 1
    /\ runtime.stopped =>
           runtime.num_conns =
               Some(SumU32([c \in Cores |-> runtime.workers[c].flows]))

\* the callback has run on two cores and the process has shut down
C29_Witness ==
    /\ Cardinality(CallbackCores) >= 2
    /\ runtime.stopped

\* C30: the clock calibration constant is written exactly once, before any
\* worker processes a packet, and is read-only afterwards; every reader
\* sees the same value and no packet is processed while it is uninitialised.
C30_CalibratedBeforePackets ==
    /\ runtime.tsc_ghz.writes <= 1
    /\ Cardinality(UNION {runtime.workers[c].seen : c \in Cores}) <= 1
    /\ \A c \in Cores :
           (runtime.workers[c].pkts > 0) => runtime.tsc_ghz.state = "done"

\* a worker is in update() on its first packet and the cell has no value
C30_Witness ==
    \E c \in Cores :
        /\ runtime.workers[c].pc = "update"
        /\ runtime.workers[c].pkts = 1
        /\ runtime.tsc_ghz.state = "uninit"

\* every packet handed to the flow so far parsed as Ethernet, IPv4 and TCP
WellFormedFlow == \A k \in 1..Len(hist) : Wire(k).ipv4 /\ Wire(k).tcp

\* C31: insert_segment never panics on a well-formed packet: every key it
\* appends to is present in the pkt_data map built by FlowFeatures::new, so
\* accumulating an Ethernet/IPv4/TCP packet into a fresh flow completes.
C31_InsertSegmentCompletes == WellFormedFlow => tcf # PANIC

\* the first packet of a flow, an Ethernet/IPv4/TCP packet, has been handed
\* to insert_segment
C31_Witness == Len(hist) = 1 /\ WellFormedFlow

\* the same statement for conn_features.rs
ConnFInsertCompletes == WellFormedFlow => tcn # PANIC

\* the least and the greatest value of a history, NaN for an empty one
BatchMin(h) ==
    IF h = <<>> THEN NAN
    ELSE CHOOSE x \in Range(h) : \A y \in Range(h) : ~FLess(y, x)

BatchMax(h) ==
    IF h = <<>> THEN NAN
    ELSE CHOOSE x \in Range(h) : \A y \in Range(h) : ~FLess(x, y)

\* the running values cnt, sum, min, max are the batch values of history h
StreamIsBatch(cnt, sum, min, max, h) ==
    /\ cnt = Num(Len(h))
    /\ sum = FSum(h)
    /\ min = BatchMin(h)
    /\ max = BatchMax(h)

\* C32: in every reachable state of a tracked flow, for each direction the
\* running values equal the batch values over the retained byte-size
\* history: pkt_cnt its length, bytes_sum its sum, bytes_min its minimum
\* and bytes_max its maximum (unset when the history is empty).
C32_StreamingIsBatch ==
    /\ StreamIsBatch(tf.s_pkt_cnt, tf.s_bytes_sum, tf.s_bytes_min,
                     tf.s_bytes_max, tf.s_bytes_hist)
    /\ StreamIsBatch(tf.d_pkt_cnt, tf.d_bytes_sum, tf.d_bytes_min,
                     tf.d_bytes_max, tf.d_bytes_hist)

\* each direction has seen packets of two sizes, the larger one first in
\* one of them
C32_Witness ==
    /\ Len(tf.s_bytes_hist) >= 2
    /\ Len(tf.d_bytes_hist) >= 2
    /\ FLess(tf.s_bytes_hist[2], tf.s_bytes_hist[1])
    /\ tf.d_bytes_min # tf.d_bytes_max

\* C33: under a monotonically non-decreasing cycle counter the offsets
\* (delta_ns) recorded for successive packets of one flow are non-decreasing
\* in arrival order, also after the counter has passed 2^32 cycles since
\* the flow's start and after the offset has passed the u32 range.
C33_OffsetsNonDecreasing ==
    out # <<>> => out[1].ret[1] <= out[1].ret[2]

\* offsets have been computed, by conn_features.rs, for a packet before and
\* a packet after the counter passed 2^32 cycles since the flow's start
C33_Witness ==
    /\ out # <<>>
    /\ out[1].call = "conn_features"
    /\ samples[2] - samples[1] < U32Span
    /\ samples[3] - samples[1] >= U32Span

\* the offsets of packet_features.rs alone
PacketOffsetsNonDecreasing ==
    (out # <<>> /\ out[1].call = "packet_features") =>
        out[1].ret[1] <= out[1].ret[2]

\* C34: in every reachable state of a tracked flow, if the ack timestamp
\* is set then the syn_ack timestamp is set and, the clock being monotonic,
\* ack_ts >= syn_ack_ts; an emitted ack_dat that is defined is not negative.
C34_AckAfterSynAck ==
    /\ ~is_nan(tf.ack_ts) =>
           /\ ~is_nan(tf.syn_ack_ts)
           /\ ~FLess(tf.ack_ts, tf.syn_ack_ts)
    /\ \A i \in DOMAIN invoked :
           is_nan(invoked[i].ack_dat) \/ ~FLess(invoked[i].ack_dat, Num(0))

\* a flow whose ack timestamp is set has been finalized
C34_Witness ==
    /\ invoked # <<>>
    /\ ~is_nan(tf.ack_ts)
    /\ ~is_nan(invoked[Len(invoked)].ack_dat)

\* C35: in every reachable state of a tracked flow, if the syn_ack
\* timestamp is set then the syn timestamp is set and syn_ts <= syn_ack_ts,
\* for any interleaving of originator and responder packets, so an emitted
\* syn_ack that is defined is never negative.
C35_SynBeforeSynAck ==
    /\ ~is_nan(tf.syn_ack_ts) =>
           /\ ~is_nan(tf.syn_ts)
           /\ ~FLess(tf.syn_ack_ts, tf.syn_ts)
    /\ \A i \in DOMAIN invoked :
           is_nan(invoked[i].syn_ack) \/ ~FLess(invoked[i].syn_ack, Num(0))

\* a responder SYN+ACK was accumulated before any originator packet, an
\* originator packet followed and the flow has been finalized
C35_Witness ==
    /\ invoked # <<>>
    /\ SynAckIdx # {}
    /\ OrigIdx # {}
    /\ FirstIdx(SynAckIdx) < FirstIdx(OrigIdx)

\* the numbers of the packets that parsed as Ethernet/IPv4/TCP, in arrival
\* order
TcpParsed == SelectSeq(Handed, LAMBDA k : Wire(k).ipv4 /\ Wire(k).tcp)

\* entry e of a record describes the k-th packet of the flow
Describes(e, k) ==
    /\ e.dir = (IF Wire(k).dir THEN 1 ELSE 0)
    /\ e.delta_ns = ArrivalTime(k) - ArrivalTime(1)
    /\ e.ip_total_length = Wire(k).total_length
    /\ e.tcp_flags_syn = (IF Wire(k).syn THEN 1 ELSE 0)
    /\ e.tcp_flags_ack = (IF Wire(k).ack THEN 1 ELSE 0)

\* C36: the PacketFeatures record emitted at termination contains exactly
\* the packets that parsed as Ethernet/IPv4/TCP, one entry per such packet,
\* in arrival order across both directions, each with dir = 1 for an
\* originator packet and 0 for a responder packet.
C36_RecordHoldsAcceptedPackets ==
    \A i \in DOMAIN invoked :
        /\ Len(invoked[i].packets) = Len(TcpParsed)
        /\ \A j \in DOMAIN TcpParsed :
               Describes(invoked[i].packets[j], TcpParsed[j])

\* a record has been emitted for a flow of a responder packet followed by
\* an originator packet, both accepted
C36_Witness ==
    /\ invoked # <<>>
    /\ Len(TcpParsed) = 2
    /\ ~Wire(1).dir
    /\ Wire(2).dir

\* callbacks invoked so far, over all cores
Callbacks == SumU32([c \in Cores |-> runtime.workers[c].flows])

\* C37: with callbacks running concurrently on several cores, the
\* connection count reported after runtime.run() returns equals the total
\* number of callback invocations: no increment of the shared counter is
\* lost under any interleaving.
C37_NoLostIncrement ==
    /\ runtime.cnt.value = Callbacks
    /\ runtime.stopped => runtime.num_conns = Some(Callbacks)

\* the count has been reported after callbacks ran on every core, more
\* than one of them on some core
C37_Witness ==
    /\ runtime.stopped
    /\ CallbackCores = Cores
    /\ Callbacks > NumCores

\* the i-th write to the file and the next one are the JSON bytes and the
\* newline of one record
OneLine(i) ==
    /\ runtime.file[i].part = "json"
    /\ runtime.file[i + 1] = [runtime.file[i] EXCEPT !.part = "nl"]

\* lines of the file: newlines written
Lines == {i \in DOMAIN runtime.file : runtime.file[i].part = "nl"}

\* C38: in log_features, with callbacks running concurrently on several
\* cores, each record is written as one contiguous line, its JSON bytes
\* immediately followed by its newline and never interleaved with bytes of
\* another record, and the final counter equals the number of lines
\* written to the output file.
C38_ContiguousLines ==
    /\ \A i \in DOMAIN runtime.file :
           IF runtime.file[i].part = "json"
           THEN i = Len(runtime.file) \/ OneLine(i)
           ELSE i > 1 /\ OneLine(i - 1)
    /\ runtime.stopped => runtime.num_conns = Some(Cardinality(Lines))

\* the process has shut down after every core wrote a record and the
\* records of two cores alternate in the file
C38_Witness ==
    /\ runtime.stopped
    /\ Len(runtime.file) >= 6
    /\ runtime.file[1].core # runtime.file[3].core
    /\ runtime.file[1].core = runtime.file[5].core

\* the first n samples of a class, all of them when it holds fewer
Prefix(raw, n_pkts) ==
    IF n_pkts = None \/ n_pkts[1] >= Len(raw) THEN raw
    ELSE SubSeq(raw, 1, n_pkts[1])

\* C39: get_features(Some(n)) aggregates exactly the first n samples of
\* every feature class and, when a class holds fewer than n samples,
\* aggregates the samples that exist without panicking; get_features(None)
\* aggregates all samples of each class.
C39_PrefixAggregated ==
    (out # <<>> /\ out[1].call = "get_features") =>
        /\ out[1].ret # <<PANIC>>
        /\ \A c \in DOMAIN PACKET_FT_CLASSES, a \in DOMAIN AGGREGATORS :
               out[1].ret[(c - 1) * Len(AGGREGATORS) + a] =
                   aggregate(AGGREGATORS[a],
                             Prefix(FlowFeatures_of(samples).pkt_data[PACKET_FT_CLASSES[c]],
                                    out[1].n_pkts))

\* get_features(Some(n)) has been called on a flow whose filled classes
\* hold at least n samples, n > 0, and whose packet_iat class holds none
C39_Witness ==
    /\ out # <<>>
    /\ out[1].call = "get_features"
    /\ out[1].n_pkts # None
    /\ out[1].n_pkts[1] > 0
    /\ out[1].n_pkts[1] <= Len(samples)

\* get_features(None) alone
AllSamplesAggregated ==
    (out # <<>> /\ out[1].call = "get_features" /\ out[1].n_pkts = None) =>
        C39_PrefixAggregated

============================================================================
